---- MODULE Spec2Model ----
(***************************************************************************)
(* A model of the usage-data reconciliation engine, claude_reconcile.py:   *)
(* file discovery, per-file loading and normalisation, grouping by session *)
(* id, conflict resolution, report generation and persistence.             *)
(*                                                                         *)
(* Python values are modelled as follows.                                  *)
(*   - a dict with string keys is a function whose DOMAIN is the set of    *)
(*     keys present ("k in d" is k \in DOMAIN d);                          *)
(*   - every key has one type: the keys of NumericFields hold integers,    *)
(*     every other key holds a string; None is the string NoneVal;         *)
(*   - a cost is an integer number of 1e-6 dollars;                        *)
(*   - an insertion-ordered dict whose order matters (sessions_by_id, the  *)
(*     reconciled mapping, the top level of a JSON document) is a sequence *)
(*     of entries with pairwise distinct keys;                             *)
(*   - wall-clock time is the integer variable clock (one unit = 1 second  *)
(*     for strftime, and the resolution at which two now() values differ). *)
(***************************************************************************)
EXTENDS Integers, Sequences, FiniteSets, TLC

VARIABLES
    sync_exists,     \* whether the sync directory exists
    fs,              \* sync directory: file name -> file (see File below)
    outfs,           \* a separate --output-dir: file name -> file
    args,            \* command line of main(): [output_dir, dry_run]
    pc,              \* position of main()/reconcile()
    json_files,      \* the files discovered and not loaded yet
    loaded,          \* the loads of this run: [json_file, now, step]
    sessions_by_id,  \* self.sessions_by_id
    machine_stats,   \* self.machine_stats
    conflicts,       \* self.conflicts
    errors,          \* self.errors
    reconciled,      \* reconciled_sessions of reconcile()
    report,          \* report of reconcile()
    clock,           \* wall-clock time
    run,             \* number of the current run of the tool
    history,         \* what the earlier runs discovered and reported
    hash_seed,       \* the process's string-hash seed (PYTHONHASHSEED)
    savers           \* concurrent writers of _save_reconciled_data

vars == <<sync_exists, fs, outfs, args, pc, json_files, loaded, sessions_by_id,
          machine_stats, conflicts, errors, reconciled, report, clock, run,
          history, hash_seed, savers>>

(***************************************************************************)
(* Bounds of the model.                                                    *)
(***************************************************************************)
MaxEntries == 2      \* raw session entries over all the machine exports
MaxDups == 3         \* duplicates of one session id drawn for the resolver
MaxClock == 1        \* the clock runs from 0 to MaxClock
MaxRuns == 2         \* successive runs of the tool
MaxConflicts == 11   \* session ids that two exports both hold

(***************************************************************************)
(* Python values.                                                          *)
(***************************************************************************)
NoneVal == "<None>"

NumericFields ==
    {"input_tokens", "prompt_tokens", "inputs", "output_tokens",
     "completion_tokens", "outputs", "total_cost", "cost", "price",
     "_file_modified"}

\* The string values of the model that start with an underscore.
UnderscoreStrings ==
    {"_draft", "_mac", "_s9", "_opus", "_sonnet",
     "_sync/claude_usage_mac-1.json", "_sync/claude_usage_mac-2.json"}

\* The dict keys of the model that start with an underscore.
UnderscoreKeys == {"_machine_id", "_source_file", "_file_modified", "_note"}

\* d.get(k, default)
Get(d, k, default) == IF k \in DOMAIN d THEN d[k] ELSE default

\* bool(v) for the value v held under key k
Truthy(k, v) == IF k \in NumericFields THEN v # 0 ELSE v \notin {"", NoneVal}

\* str(v).startswith('_') for the value v held under key k; the decimal
\* rendering of a number never starts with an underscore
StartsWithUnderscore(k, v) ==
    IF k \in NumericFields THEN FALSE ELSE v \in UnderscoreStrings

\* An id value that is a non-empty list: truthy, and unhashable as a
\* dict key.
Unhashable == "<list>"

\* str(v) of an id value
Str(v) == IF v = NoneVal THEN "None" ELSE v

RECURSIVE SumSeq(_)
SumSeq(s) == IF s = <<>> THEN 0 ELSE Head(s) + SumSeq(Tail(s))

Range(s) == {s[i] : i \in 1..Len(s)}

(***************************************************************************)
(* Timestamps.  The strings of the model and what _parse_timestamp and     *)
(* datetime.fromisoformat make of them.                                    *)
(***************************************************************************)
IsoAware == "2024-01-01T10:00:00+00:00"    \* ISO-8601 with a UTC offset
IsoNaive == "2024-01-02T09:00:00"          \* ISO-8601 without an offset
SpaceFormat == "2024-01-03 08:00:00"       \* '%Y-%m-%d %H:%M:%S'
Unparseable == "yesterday"                 \* no format matches
NotIsoWithT == "Tuesday"                   \* holds a 'T', is no ISO date

\* datetime.now(timezone.utc).isoformat() at time t
IsoNow(t) == "2026-11-05T12:00:0" \o ToString(t) \o "+00:00"

\* 'T' in timestamp
ContainsT(ts) == ts \notin {SpaceFormat, Unparseable, ""}

\* datetime.strptime over the three formats, then isoformat(); <<>> when
\* every format raises ValueError
Strptime(ts) ==
    IF ts = SpaceFormat THEN <<"2024-01-03T08:00:00+00:00">> ELSE <<>>

\* A variant of _parse_timestamp that takes the three formats alone and
\* stamps every other string with the current time.
ParseTimestampFormatsOnly(ts, now) ==
    IF ts = NoneVal THEN IsoNow(now)
    ELSE IF Strptime(ts) # <<>> THEN Strptime(ts)[1]
    ELSE IsoNow(now)

\* _parse_timestamp, called at time now.  A value that is not a string
\* (None) takes the fallback.
ParseTimestamp(ts, now) ==
    IF ts = NoneVal THEN IsoNow(now)
    ELSE IF ContainsT(ts) THEN ts
    ELSE IF Strptime(ts) # <<>> THEN Strptime(ts)[1]
    ELSE IsoNow(now)

(***************************************************************************)
(* _normalize_session                                                      *)
(***************************************************************************)
IdFields == <<"session_id", "id", "conversation_id", "uuid">>
TimestampFields == <<"timestamp", "created_at", "date", "start_time">>

\* The first field of fields that is a key of session: <<field>>, or <<>>.
RECURSIVE FirstPresent(_, _)
FirstPresent(session, fields) ==
    IF fields = <<>> THEN <<>>
    ELSE IF Head(fields) \in DOMAIN session THEN <<Head(fields)>>
    ELSE FirstPresent(session, Tail(fields))

\* A variant of the alias lookup that takes the first alias present,
\* whatever its value.
FirstPresentNumber(session, a, b, c) ==
    IF a \in DOMAIN session THEN session[a]
    ELSE IF b \in DOMAIN session THEN session[b]
    ELSE Get(session, c, 0)

\* session.get(a, 0) or session.get(b, 0) or session.get(c, 0) or 0
FirstTruthyNumber(session, a, b, c) ==
    IF Get(session, a, 0) # 0 THEN session[a]
    ELSE IF Get(session, b, 0) # 0 THEN session[b]
    ELSE IF Get(session, c, 0) # 0 THEN session[c]
    ELSE 0

\* session.get(a) or session.get(b) or session.get(c) or default
FirstTruthyString(session, a, b, c, default) ==
    IF Truthy(a, Get(session, a, NoneVal)) THEN session[a]
    ELSE IF Truthy(b, Get(session, b, NoneVal)) THEN session[b]
    ELSE IF Truthy(c, Get(session, c, NoneVal)) THEN session[c]
    ELSE default

\* The keys _normalize_session sets itself, before it copies the others.
MappedFields(session, now) ==
    LET idf == FirstPresent(session, IdFields)
        tsf == FirstPresent(session, TimestampFields)
    IN  [session_id |-> Str(session[idf[1]]),
         input_tokens |->
             FirstTruthyNumber(session, "input_tokens", "prompt_tokens", "inputs"),
         output_tokens |->
             FirstTruthyNumber(session, "output_tokens", "completion_tokens", "outputs"),
         total_cost |-> FirstTruthyNumber(session, "total_cost", "cost", "price"),
         model |->
             FirstTruthyString(session, "model", "model_name", "model_id", "unknown"),
         project |->
             IF "project" \in DOMAIN session THEN session["project"]
             ELSE Get(session, "project_name", NoneVal),
         title |->
             IF "title" \in DOMAIN session THEN session["title"]
             ELSE Get(session, "conversation_title", NoneVal)]
        @@ (IF tsf = <<>> THEN <<>>
            ELSE [timestamp |-> ParseTimestamp(session[tsf[1]], now)])

\* A variant of _normalize_session that keeps an entry without id field
\* under a made-up id.
NormalizeSessionKeepingAll(session, now) ==
    IF FirstPresent(session, IdFields) = <<>>
    THEN <<[session_id |-> "anonymous"] @@ session>>
    ELSE LET mapped == MappedFields(session, now)
             kept == (DOMAIN session \ DOMAIN mapped) \ UnderscoreKeys
         IN  <<mapped @@ [k \in kept |-> session[k]]>>

\* _normalize_session at time now: <<normalized>>, or <<>> for None.
NormalizeSession(session, now) ==
    IF FirstPresent(session, IdFields) = <<>> THEN <<>>
    ELSE LET mapped == MappedFields(session, now)
             kept == (DOMAIN session \ DOMAIN mapped) \ UnderscoreKeys
         IN  <<mapped @@ [k \in kept |-> session[k]]>>

(***************************************************************************)
(* Files.  A file is [kind, items, mtime]: kind is "corrupt" (json.load    *)
(* raises JSONDecodeError), "scalar" or "list" (valid JSON whose top level *)
(* is a number, a string, null, or a list), or "dict"; items is the top    *)
(* level of a dict in insertion order, each item [key, t, s, entries] with *)
(* t = "str" (the string s), "list" (the list entries of dicts), "scalars" *)
(* (a non-empty list of numbers) or "dict" (the one dict entries[1]);      *)
(* mtime is st_mtime.                                                      *)
(***************************************************************************)
StrItem(k, v) == [key |-> k, t |-> "str", s |-> v, entries |-> <<>>]
ListItem(k, es) == [key |-> k, t |-> "list", s |-> "", entries |-> es]
ScalarsItem(k) == [key |-> k, t |-> "scalars", s |-> "", entries |-> <<>>]
DictItem(k, e) == [key |-> k, t |-> "dict", s |-> "", entries |-> <<e>>]

\* isinstance(value, list)
IsList(item) == item.t \in {"list", "scalars"}

\* key in data, data[key]
Has(data, k) == \E i \in 1..Len(data) : data[i].key = k
Item(data, k) == data[CHOOSE i \in 1..Len(data) : data[i].key = k]

\* datetime.now().strftime('%Y%m%d_%H%M%S') at time t
Strftime(t) == "20261105_12000" \o ToString(t)

\* A variant of the sessions file name that leaves the timestamp out.
SessionsFileUnstamped(timestamp) == "reconciled_sessions.json"

SessionsFile(timestamp) == "reconciled_sessions_" \o timestamp \o ".json"
ReportFile(timestamp) == "reconciliation_report_" \o timestamp \o ".json"
SummaryFile(timestamp) == "reconciliation_summary_" \o timestamp \o ".txt"

\* The machine exports of the model, in the order sorted() gives them.
MachineFiles == <<"claude_usage_mac-1.json", "claude_usage_mac-2.json">>

Times == 0..(MaxClock + 1)

\* Other files a sync directory may hold, by their path below it.
OtherFiles ==
    {"usage.json", "mac_usage.json", "claude_usage_my_mac.json",
     "laptop/usage.json", "laptop/claude_usage_mac-3.json"}

\* json_file.stem.split('_')
StemParts(json_file) ==
    IF json_file = "claude_usage_mac-1.json" THEN <<"claude", "usage", "mac-1">>
    ELSE IF json_file = "claude_usage_mac-2.json" THEN <<"claude", "usage", "mac-2">>
    ELSE IF \E t \in Times : json_file = SessionsFile(Strftime(t))
    THEN <<"reconciled", "sessions", "20261105",
           "12000" \o ToString(CHOOSE t \in Times : json_file = SessionsFile(Strftime(t)))>>
    ELSE IF \E t \in Times : json_file = ReportFile(Strftime(t))
    THEN <<"reconciliation", "report", "20261105",
           "12000" \o ToString(CHOOSE t \in Times : json_file = ReportFile(Strftime(t)))>>
    ELSE IF json_file \in {"usage.json", "laptop/usage.json"} THEN <<"usage">>
    ELSE IF json_file = "mac_usage.json" THEN <<"mac", "usage">>
    ELSE IF json_file = "claude_usage_my_mac.json"
    THEN <<"claude", "usage", "my", "mac">>
    ELSE IF json_file = "laptop/claude_usage_mac-3.json"
    THEN <<"claude", "usage", "mac-3">>
    ELSE <<json_file>>

\* '_'.join(parts)
RECURSIVE Join(_)
Join(parts) ==
    IF Len(parts) = 0 THEN ""
    ELSE IF Len(parts) = 1 THEN parts[1]
    ELSE parts[1] \o "_" \o Join(Tail(parts))

\* json_file.parent == self.sync_dir, json_file.parent.name: the files of
\* the model lie in the sync directory or in its subdirectory laptop
ParentIsSyncDir(json_file) ==
    json_file \notin {"laptop/usage.json", "laptop/claude_usage_mac-3.json"}
ParentName(json_file) == IF ParentIsSyncDir(json_file) THEN "sync" ELSE "laptop"

\* hash(str(json_file)) % 10000 in a process whose string hashes are
\* seeded with seed
PathHash(json_file, seed) == (4321 + 1237 * seed) % 10000

\* A variant of _extract_machine_id that looks for the hostname first.
ExtractMachineIdHostnameFirst(json_file, data, seed) ==
    IF Has(data, "hostname") THEN Item(data, "hostname").s
    ELSE IF Has(data, "machine_id") THEN Item(data, "machine_id").s
    ELSE LET parts == StemParts(json_file)
         IN  IF Len(parts) >= 3 THEN Join(SubSeq(parts, 3, Len(parts)))
             ELSE IF ~ParentIsSyncDir(json_file) THEN ParentName(json_file)
             ELSE "unknown_" \o ToString(PathHash(json_file, seed))

\* _extract_machine_id, for data a dict
ExtractMachineId(json_file, data, seed) ==
    IF Has(data, "machine_id") THEN Item(data, "machine_id").s
    ELSE IF Has(data, "hostname") THEN Item(data, "hostname").s
    ELSE LET parts == StemParts(json_file)
         IN  IF Len(parts) >= 3 THEN Join(SubSeq(parts, 3, Len(parts)))
             ELSE IF ~ParentIsSyncDir(json_file) THEN ParentName(json_file)
             ELSE "unknown_" \o ToString(PathHash(json_file, seed))

\* The position of a file name in sorted(set(json_files)).
SortKey(json_file) ==
    IF json_file = MachineFiles[1] THEN 1
    ELSE IF json_file = MachineFiles[2] THEN 2
    ELSE IF \E t \in Times : json_file = SessionsFile(Strftime(t))
    THEN 10 + (CHOOSE t \in Times : json_file = SessionsFile(Strftime(t)))
    ELSE IF \E t \in Times : json_file = ReportFile(Strftime(t))
    THEN 100 + (CHOOSE t \in Times : json_file = ReportFile(Strftime(t)))
    ELSE 1000

\* sorted(names)
RECURSIVE Sorted(_)
Sorted(names) ==
    IF names = {} THEN <<>>
    ELSE LET first == CHOOSE n \in names :
                          \A m \in names : SortKey(n) <= SortKey(m)
         IN  <<first>> \o Sorted(names \ {first})

\* A variant of the patterns that matches the machine exports alone.
MatchesJsonExportsOnly(name) == name \in Range(MachineFiles)

\* fnmatch of a file name against '*.json', the pattern that subsumes the
\* other four
MatchesJson(name) == \A t \in Times : name # SummaryFile(Strftime(t))

\* _discover_json_files
DiscoverJsonFiles(exists, dir) ==
    IF ~exists THEN <<>>
    ELSE Sorted({name \in DOMAIN dir : MatchesJson(name)})

(***************************************************************************)
(* _extract_sessions                                                       *)
(***************************************************************************)
\* A variant of the container lookup that scans the values before it
\* looks for the known keys.
SessionContainerScanningFirst(data) ==
    LET found == {i \in 1..Len(data) :
                     data[i].t = "list" /\ data[i].entries # <<>>}
    IN  IF found # {} THEN data[CHOOSE i \in found : \A j \in found : i <= j]
        ELSE IF Has(data, "sessions") THEN Item(data, "sessions")
        ELSE IF Has(data, "usage_data") THEN Item(data, "usage_data")
        ELSE IF Has(data, "conversations") THEN Item(data, "conversations")
        ELSE IF Has(data, "data") /\ IsList(Item(data, "data"))
        THEN Item(data, "data")
        ELSE ListItem("", <<>>)

\* The value the container lookup leaves in 'sessions', as an item; the
\* initial [] when nothing matches.  The scan of the values takes the first
\* non-empty list whose first element is a dict.
SessionContainer(data) ==
    IF Has(data, "sessions") THEN Item(data, "sessions")
    ELSE IF Has(data, "usage_data") THEN Item(data, "usage_data")
    ELSE IF Has(data, "conversations") THEN Item(data, "conversations")
    ELSE IF Has(data, "data") /\ IsList(Item(data, "data"))
    THEN Item(data, "data")
    ELSE LET found == {i \in 1..Len(data) :
                          data[i].t = "list" /\ data[i].entries # <<>>}
         IN  IF found = {} THEN ListItem("", <<>>)
             ELSE data[CHOOSE i \in found : \A j \in found : i <= j]

\* The entries that are dicts, of the list (or of [sessions] when the
\* container is no list).
ContainerEntries(data) == SessionContainer(data).entries

\* The normalized entries; the i-th entry is normalized at time
\* now + step * (i - 1)
RECURSIVE NormalizeAll(_, _, _)
NormalizeAll(entries, now, step) ==
    IF entries = <<>> THEN <<>>
    ELSE NormalizeSession(Head(entries), now)
             \o NormalizeAll(Tail(entries), now + step, step)

ExtractSessions(data, now, step) ==
    NormalizeAll(ContainerEntries(data), now, step)

(***************************************************************************)
(* _load_machine_data                                                      *)
(***************************************************************************)
\* str(json_file)
PathStr(json_file) == "/sync/" \o json_file

\* session.get('session_id') or session.get('id')
GroupKey(session) ==
    IF Truthy("session_id", Get(session, "session_id", NoneVal))
    THEN session["session_id"]
    ELSE Get(session, "id", NoneVal)

\* self.sessions_by_id[session_id].append(session)
AppendById(by_id, session_id, session) ==
    IF \E i \in 1..Len(by_id) : by_id[i].id = session_id
    THEN [i \in 1..Len(by_id) |->
             IF by_id[i].id = session_id
             THEN [by_id[i] EXCEPT !.dups = Append(@, session)]
             ELSE by_id[i]]
    ELSE Append(by_id, [id |-> session_id, dups |-> <<session>>])

\* The loop that stores the sessions with their machine info:
\* [by_id, raised], raised when a session's id is unhashable and
\* self.sessions_by_id[session_id] raises TypeError, the sessions before it
\* being stored.
RECURSIVE StoreSessions(_, _, _)
StoreSessions(by_id, sessions, info) ==
    IF sessions = <<>> THEN [by_id |-> by_id, raised |-> FALSE]
    ELSE LET session == info @@ Head(sessions)
             session_id == GroupKey(session)
         IN  IF session_id = Unhashable
             THEN [by_id |-> by_id, raised |-> TRUE]
             ELSE StoreSessions(
                      IF Truthy("session_id", session_id)
                      THEN AppendById(by_id, session_id, session)
                      ELSE by_id,
                      Tail(sessions), info)

RECURSIVE SumField(_, _)
SumField(sessions, field) ==
    IF sessions = <<>> THEN 0
    ELSE Get(Head(sessions), field, 0) + SumField(Tail(sessions), field)

\* What the except clauses append to self.errors.
ErrorRecord(json_file, type) == [file |-> PathStr(json_file), type |-> type]

\* The try block of _load_machine_data for data a dict, on the reconciler
\* state st = [sessions_by_id, machine_stats, errors]; the file's entries
\* are normalized from time now on, step apart.  What the storing loop
\* raises is taken by the second except clause.
LoadDict(st, json_file, file, now, step, seed) ==
    LET data == file.items
        machine_id == ExtractMachineId(json_file, data, seed)
        sessions == ExtractSessions(data, now, step)
        stat == [file |-> PathStr(json_file),
                 session_count |-> Len(sessions),
                 last_modified |-> file.mtime,
                 total_cost |-> SumField(sessions, "total_cost"),
                 total_tokens |-> SumField(sessions, "input_tokens")
                                  + SumField(sessions, "output_tokens")]
        info == [_machine_id |-> machine_id,
                 _source_file |-> PathStr(json_file),
                 _file_modified |-> file.mtime]
        stored == StoreSessions(st.sessions_by_id, sessions, info)
    IN  [st EXCEPT
            !.machine_stats = (machine_id :> stat) @@ @,
            !.sessions_by_id = stored.by_id,
            !.errors = IF stored.raised
                       THEN Append(@, ErrorRecord(json_file, "unknown_error"))
                       ELSE @]

\* A variant of _load_machine_data that takes a top level that is no
\* mapping for an export without sessions.
LoadMachineDataAcceptingLists(st, json_file, file, now, step, seed) ==
    IF file.kind = "corrupt"
    THEN [st EXCEPT !.errors = Append(@, ErrorRecord(json_file, "corrupt_file"))]
    ELSE LoadDict(st, json_file, file, now, step, seed)

\* A variant of _load_machine_data in which a file that fails to parse
\* discards the sessions loaded so far.
LoadMachineDataDiscarding(st, json_file, file, now, step, seed) ==
    IF file.kind = "corrupt"
    THEN [st EXCEPT !.errors = Append(@, ErrorRecord(json_file, "corrupt_file")),
                    !.sessions_by_id = <<>>]
    ELSE IF file.kind # "dict"
    THEN [st EXCEPT !.errors = Append(@, ErrorRecord(json_file, "unknown_error"))]
    ELSE LoadDict(st, json_file, file, now, step, seed)

\* _load_machine_data: json.load raises JSONDecodeError on a corrupt file;
\* on a list or a scalar either _extract_machine_id raises TypeError or the
\* isinstance check raises ValueError, which the second except clause takes
LoadMachineData(st, json_file, file, now, step, seed) ==
    IF file.kind = "corrupt"
    THEN [st EXCEPT !.errors = Append(@, ErrorRecord(json_file, "corrupt_file"))]
    ELSE IF file.kind # "dict"
    THEN [st EXCEPT !.errors = Append(@, ErrorRecord(json_file, "unknown_error"))]
    ELSE LoadDict(st, json_file, file, now, step, seed)

(***************************************************************************)
(* _resolve_conflict, _are_duplicates_identical, _reconcile_sessions       *)
(***************************************************************************)
RemoveAt(s, i) == SubSeq(s, 1, i - 1) \o SubSeq(s, i + 1, Len(s))

\* A variant of the sort that puts the oldest file first.
RECURSIVE SortByFileModifiedAscending(_)
SortByFileModifiedAscending(duplicates) ==
    IF duplicates = <<>> THEN <<>>
    ELSE LET least == {i \in 1..Len(duplicates) :
                          \A j \in 1..Len(duplicates) :
                              duplicates[i]["_file_modified"]
                                  <= duplicates[j]["_file_modified"]}
             i == CHOOSE i \in least : \A j \in least : i <= j
         IN  <<duplicates[i]>> \o SortByFileModifiedAscending(RemoveAt(duplicates, i))

\* A variant of the sort whose key is the session's timestamp: the
\* duplicates stamped with the latest reading of the clock come first.
SortByTimestamp(duplicates) ==
    SelectSeq(duplicates, LAMBDA d : Get(d, "timestamp", NoneVal) = IsoNow(MaxClock))
    \o SelectSeq(duplicates, LAMBDA d : Get(d, "timestamp", NoneVal) # IsoNow(MaxClock))

\* A variant of the sort that leaves the duplicates in load order.
SortKeepingLoadOrder(duplicates) == duplicates

\* duplicates.sort(key=lambda x: x['_file_modified'], reverse=True): the
\* sort is stable
RECURSIVE SortByFileModified(_)
SortByFileModified(duplicates) ==
    IF duplicates = <<>> THEN <<>>
    ELSE LET most == {i \in 1..Len(duplicates) :
                         \A j \in 1..Len(duplicates) :
                             duplicates[i]["_file_modified"]
                                 >= duplicates[j]["_file_modified"]}
             i == CHOOSE i \in most : \A j \in most : i <= j
         IN  <<duplicates[i]>> \o SortByFileModified(RemoveAt(duplicates, i))

KeyFields == {"input_tokens", "output_tokens", "total_cost", "model", "timestamp"}

\* d.get(field), as <<value>>, or <<>> for None
GetOrNone(d, field) == IF field \in DOMAIN d THEN <<d[field]>> ELSE <<>>

AreDuplicatesIdentical(duplicates) ==
    Len(duplicates) < 2
    \/ \A i \in 2..Len(duplicates) : \A field \in KeyFields :
           GetOrNone(duplicates[1], field) = GetOrNone(duplicates[i], field)

\* sum(1 for v in dup.values() if v and not str(v).startswith('_'))
FieldCount(dup) ==
    Cardinality({k \in DOMAIN dup :
                    Truthy(k, dup[k]) /\ ~StartsWithUnderscore(k, dup[k])})

TotalTokens(dup) == Get(dup, "input_tokens", 0) + Get(dup, "output_tokens", 0)

\* Whether the loop replaces its best duplicate by a duplicate with
\* field_count fields and total_tokens tokens.
Prefers(field_count, total_tokens, max_fields, max_tokens) ==
    field_count > max_fields
    \/ (field_count = max_fields /\ total_tokens > max_tokens)

\* The loop over the duplicates: best is <<>> for None.
RECURSIVE MostComplete(_, _)
MostComplete(duplicates, acc) ==
    IF duplicates = <<>> THEN acc
    ELSE LET dup == Head(duplicates)
         IN  MostComplete(Tail(duplicates),
                 IF Prefers(FieldCount(dup), TotalTokens(dup),
                            acc.max_fields, acc.max_tokens)
                 THEN [best |-> <<dup>>, max_fields |-> FieldCount(dup),
                       max_tokens |-> TotalTokens(dup)]
                 ELSE acc)

\* A variant of _resolve_conflict that fills the title its winner lacks
\* from the most recent duplicate that has one.
ResolveConflictMerging(session_id, dups) ==
    LET duplicates == SortByFileModified(dups)
        conflict == [session_id |-> session_id,
                     duplicates |-> Len(dups),
                     machines |-> {dups[i]["_machine_id"] : i \in 1..Len(dups)}]
        best == MostComplete(duplicates,
                    [best |-> <<>>, max_fields |-> 0, max_tokens |-> 0]).best
        identical == AreDuplicatesIdentical(duplicates)
        winner == IF identical \/ best = <<>> THEN duplicates[1] ELSE best[1]
        titled == {i \in 1..Len(duplicates) :
                      Truthy("title", Get(duplicates[i], "title", NoneVal))}
        title == IF titled = {} \/ Truthy("title", Get(winner, "title", NoneVal))
                 THEN <<>>
                 ELSE [title |->
                          duplicates[CHOOSE i \in titled :
                                         \A j \in titled : i <= j]["title"]]
    IN  [resolved |-> title @@ winner,
         conflict |-> conflict @@
             (IF identical THEN [resolution |-> "identical_content"]
              ELSE [resolution |-> IF best # <<>> THEN "most_complete_record"
                                   ELSE "most_recent",
                    selected_machine |-> winner["_machine_id"]]),
         duplicates |-> duplicates]

\* _resolve_conflict: [resolved, conflict, duplicates], duplicates being the
\* list as the in-place sort leaves it
ResolveConflict(session_id, dups) ==
    LET duplicates == SortByFileModified(dups)
        conflict == [session_id |-> session_id,
                     duplicates |-> Len(dups),
                     machines |-> {dups[i]["_machine_id"] : i \in 1..Len(dups)}]
        best == MostComplete(duplicates,
                    [best |-> <<>>, max_fields |-> 0, max_tokens |-> 0]).best
    IN  IF AreDuplicatesIdentical(duplicates)
        THEN [resolved |-> duplicates[1],
              conflict |-> conflict @@ [resolution |-> "identical_content"],
              duplicates |-> duplicates]
        ELSE IF best # <<>>
        THEN [resolved |-> best[1],
              conflict |-> conflict @@
                  [resolution |-> "most_complete_record",
                   selected_machine |-> best[1]["_machine_id"]],
              duplicates |-> duplicates]
        ELSE [resolved |-> duplicates[1],
              conflict |-> conflict @@
                  [resolution |-> "most_recent",
                   selected_machine |-> duplicates[1]["_machine_id"]],
              duplicates |-> duplicates]

\* A variant of _reconcile_sessions that resolves every group, those of
\* one session too.
RECURSIVE ReconcileFromResolvingAll(_, _, _)
ReconcileFromResolvingAll(by_id, i, acc) ==
    IF i > Len(by_id) THEN acc
    ELSE LET r == ResolveConflict(by_id[i].id, by_id[i].dups)
         IN  ReconcileFromResolvingAll(by_id, i + 1,
                 [reconciled |->
                      Append(acc.reconciled, [id |-> by_id[i].id, session |-> r.resolved]),
                  conflicts |-> Append(acc.conflicts, r.conflict),
                  sessions_by_id |->
                      [acc.sessions_by_id EXCEPT ![i].dups = r.duplicates]])

\* _reconcile_sessions over self.sessions_by_id from position i on:
\* [reconciled, conflicts, sessions_by_id]
RECURSIVE ReconcileFrom(_, _, _)
ReconcileFrom(by_id, i, acc) ==
    IF i > Len(by_id) THEN acc
    ELSE IF Len(by_id[i].dups) = 1
    THEN ReconcileFrom(by_id, i + 1,
             [acc EXCEPT !.reconciled =
                 Append(@, [id |-> by_id[i].id, session |-> by_id[i].dups[1]])])
    ELSE LET r == ResolveConflict(by_id[i].id, by_id[i].dups)
         IN  ReconcileFrom(by_id, i + 1,
                 [reconciled |->
                      Append(acc.reconciled, [id |-> by_id[i].id, session |-> r.resolved]),
                  conflicts |-> Append(acc.conflicts, r.conflict),
                  sessions_by_id |->
                      [acc.sessions_by_id EXCEPT ![i].dups = r.duplicates]])

ReconcileSessions(by_id, conflict_list) ==
    ReconcileFrom(by_id, 1,
        [reconciled |-> <<>>, conflicts |-> conflict_list, sessions_by_id |-> by_id])

(***************************************************************************)
(* _generate_report                                                        *)
(***************************************************************************)
\* datetime.fromisoformat(ts.replace('Z', '+00:00')): an offset-aware or
\* an offset-naive datetime, or "error" when it raises
FromIsoFormat(ts) ==
    IF ts \in {NotIsoWithT, SpaceFormat, Unparseable} THEN "error"
    ELSE IF ts = IsoNaive THEN "naive"
    ELSE "aware"

\* The hours from 2024-01-01T00:00 to the datetime of a timestamp.
Hours(ts) ==
    IF ts = IsoAware THEN 10
    ELSE IF ts = IsoNaive THEN 33
    ELSE IF ts = "2024-01-03T08:00:00+00:00" THEN 56
    ELSE 24948

\* The timestamps the time-based analysis parses.
ParsedTimestamps(sessions) ==
    {sessions[i].session["timestamp"] : i \in
        {j \in 1..Len(sessions) :
            /\ Truthy("timestamp", Get(sessions[j].session, "timestamp", NoneVal))
            /\ FromIsoFormat(sessions[j].session["timestamp"]) # "error"}}

\* timestamps.sort() raises TypeError when it compares an offset-naive
\* with an offset-aware datetime
SortRaises(timestamps) ==
    /\ \E ts \in timestamps : FromIsoFormat(ts) = "naive"
    /\ \E ts \in timestamps : FromIsoFormat(ts) = "aware"

DateRange(timestamps) ==
    IF timestamps = {}
    THEN [earliest |-> NoneVal, latest |-> NoneVal, days_covered |-> 0]
    ELSE LET first == CHOOSE a \in timestamps :
                          \A b \in timestamps : Hours(a) <= Hours(b)
             last == CHOOSE a \in timestamps :
                         \A b \in timestamps : Hours(a) >= Hours(b)
         IN  [earliest |-> first, latest |-> last,
              days_covered |-> ((Hours(last) - Hours(first)) \div 24) + 1]

\* A variant of the rounding that cuts the digits off.
Round4Truncating(cost) == (cost \div 100) * 100

\* round(total_cost, 4) of a cost in 1e-6 dollars: the nearest multiple of
\* 1e-4.  Halfway between two multiples the float's binary value decides;
\* the costs of the model are multiples of 20e-6, so that no sum of them is
\* halfway.
Round4(cost) ==
    LET q == cost \div 100
        r == cost % 100
    IN  IF r > 50 THEN (q + 1) * 100 ELSE q * 100

Values(sessions) == [i \in 1..Len(sessions) |-> sessions[i].session]

ModelOf(session) == Get(session, "model", "unknown")

ModelStats(sessions) ==
    [m \in {ModelOf(sessions[i]) : i \in 1..Len(sessions)} |->
        LET of == SelectSeq(sessions, LAMBDA x : ModelOf(x) = m)
        IN  [sessions |-> Len(of),
             input_tokens |-> SumField(of, "input_tokens"),
             output_tokens |-> SumField(of, "output_tokens"),
             cost |-> SumField(of, "total_cost")]]

\* _group_conflicts_by_resolution
GroupConflictsByResolution(conflict_list) ==
    [r \in {conflict_list[i].resolution : i \in 1..Len(conflict_list)} |->
        Cardinality({i \in 1..Len(conflict_list) : conflict_list[i].resolution = r})]

\* _group_errors_by_type
GroupErrorsByType(error_list) ==
    [t \in {error_list[i].type : i \in 1..Len(error_list)} |->
        Cardinality({i \in 1..Len(error_list) : error_list[i].type = t})]

Min(a, b) == IF a <= b THEN a ELSE b

\* A variant of the conflict details that holds every conflict.
ConflictDetailsUnbounded(conflict_list) == conflict_list

\* self.conflicts[:10]
ConflictDetails(conflict_list) ==
    SubSeq(conflict_list, 1, Min(10, Len(conflict_list)))

\* _generate_report at time now, when it returns
GenerateReport(sessions, stats, conflict_list, error_list, now) ==
    LET values == Values(sessions)
        total_input_tokens == SumField(values, "input_tokens")
        total_output_tokens == SumField(values, "output_tokens")
        model_stats == ModelStats(values)
    IN  [reconciliation_timestamp |-> IsoNow(now),
         summary |->
             [total_sessions |-> Len(sessions),
              total_input_tokens |-> total_input_tokens,
              total_output_tokens |-> total_output_tokens,
              total_tokens |-> total_input_tokens + total_output_tokens,
              total_cost |-> Round4(SumField(values, "total_cost")),
              unique_models |-> Cardinality(DOMAIN model_stats),
              date_range |-> DateRange(ParsedTimestamps(sessions))],
         machine_stats |-> stats,
         model_breakdown |-> model_stats,
         conflicts |->
             [total |-> Len(conflict_list),
              by_resolution |-> GroupConflictsByResolution(conflict_list),
              details |-> ConflictDetails(conflict_list)],
         errors |->
             [total |-> Len(error_list),
              by_type |-> GroupErrorsByType(error_list),
              details |-> error_list]]

\* Whether _generate_report raises instead (the TypeError of the sort).
GenerateReportRaises(sessions) == SortRaises(ParsedTimestamps(sessions))

(***************************************************************************)
(* _save_reconciled_data                                                   *)
(***************************************************************************)
\* st_mtime of a file written at time t: later than every machine export
MtimeAt(t) == 10 + t

\* A top-level key whose value is a dict no code path reads back.
OpaqueItem(k) == [key |-> k, t |-> "dict", s |-> "", entries |-> <<>>]

\* The three artifacts written at time now, by file name.
Artifacts(sessions, rep, now) ==
    LET timestamp == Strftime(now)
    IN  (SessionsFile(timestamp) :>
            [kind |-> "dict",
             items |-> <<OpaqueItem("metadata"), ListItem("sessions", Values(sessions))>>,
             mtime |-> MtimeAt(now)])
        @@ (ReportFile(timestamp) :>
            [kind |-> "dict",
             items |-> <<StrItem("reconciliation_timestamp", rep.reconciliation_timestamp),
                         OpaqueItem("summary"), OpaqueItem("machine_stats"),
                         OpaqueItem("model_breakdown"), OpaqueItem("conflicts"),
                         OpaqueItem("errors")>>,
             mtime |-> MtimeAt(now)])
        @@ (SummaryFile(timestamp) :>
            [kind |-> "text", items |-> <<>>, mtime |-> MtimeAt(now)])

\* _save_reconciled_data into the directory dir: each open(..., 'w')
\* creates or truncates its file
SaveReconciledData(dir, sessions, rep, now) == Artifacts(sessions, rep, now) @@ dir

(***************************************************************************)
(* The inputs of the model: raw session entries as machines export them.   *)
(***************************************************************************)
RawEntries ==
    << \* Scenario A and B of the specification: mac-1's record of a session
       [session_id |-> "sess-1", input_tokens |-> 100, output_tokens |-> 50,
        total_cost |-> 1500, model |-> "opus", timestamp |-> IsoAware],
       \* the same session with other tokens and a title
       [session_id |-> "sess-1", input_tokens |-> 150, output_tokens |-> 50,
        total_cost |-> 1500, model |-> "opus", timestamp |-> IsoAware,
        title |-> "Fix"],
       \* alias fields and a timestamp no format parses
       [id |-> "sess-2", prompt_tokens |-> 10, completion_tokens |-> 5,
        cost |-> 240, model_name |-> "sonnet", created_at |-> Unparseable],
       \* the same session as another machine costs it
       [id |-> "sess-2", prompt_tokens |-> 10, completion_tokens |-> 5,
        cost |-> 300, model_name |-> "sonnet", created_at |-> Unparseable],
       \* no id alias field
       [input_tokens |-> 7, title |-> "untitled"],
       \* an empty session_id beside an id
       [session_id |-> "", id |-> "sess-3", input_tokens |-> 1],
       [session_id |-> "", id |-> "sess-4", total_cost |-> 40],
       \* an empty session_id alone
       [session_id |-> "", input_tokens |-> 2],
       \* a timestamp without UTC offset
       [session_id |-> "sess-5", input_tokens |-> 3, timestamp |-> IsoNaive],
       \* an empty session_id beside an id that is a list
       [session_id |-> "", id |-> Unhashable] >>

\* The lists of at most n raw entries, drawn from the entries whose
\* positions are in pool.
EntryLists(n, pool) ==
    UNION {{[i \in 1..k |-> RawEntries[f[i]]] : f \in [1..k -> pool]} : k \in 0..n}

\* The contents a machine export may have: <<>> for no file.
FileContents(n, pool) ==
    {<<>>}
    \cup {<<[kind |-> k, items |-> <<>>, mtime |-> 1]>> : k \in {"corrupt", "list", "scalar"}}
    \cup {<<[kind |-> "dict", items |-> <<ListItem("sessions", es)>>, mtime |-> m]>> :
              es \in EntryLists(n, pool), m \in {1, 2}}

EntryCount(content) ==
    IF content = <<>> \/ content[1].items = <<>> THEN 0
    ELSE Len(content[1].items[1].entries)

\* The sync directories with at most n raw entries in all.
SyncDirs(n, pool) ==
    {[name \in {MachineFiles[i] : i \in {j \in 1..2 : c[j] # <<>>}} |->
         c[CHOOSE i \in 1..2 : MachineFiles[i] = name][1]] :
     c \in {d \in FileContents(n, pool) \X FileContents(n, pool) :
                /\ EntryCount(d[1]) + EntryCount(d[2]) <= n
                \* modification times matter by their order alone
                /\ \A j \in 1..2 :
                       (d[j] # <<>> /\ d[j][1].mtime = 2) =>
                           (d[3 - j] # <<>> /\ d[3 - j][1].kind = "dict"
                            /\ d[3 - j][1].mtime = 1)}}

\* A string-hash seed matters only to a run that hashes a path.
HashSeeds(dir) == {0}

(***************************************************************************)
(* The state machine: main() and reconcile(), one action per step.         *)
(***************************************************************************)
NewReconciler ==
    /\ json_files = <<>>
    /\ loaded = <<>>
    /\ sessions_by_id = <<>>
    /\ machine_stats = <<>>
    /\ conflicts = <<>>
    /\ errors = <<>>
    /\ reconciled = <<>>
    /\ report = <<>>

\* The first run's process right after UsageDataReconciler(...), over a sync
\* directory of at most n raw entries of pool, the dry-run flag drawn from
\* dry.
InitWith(n, pool, dry) ==
    /\ \/ sync_exists = TRUE /\ fs \in SyncDirs(n, pool)
       \/ sync_exists = FALSE /\ fs = <<>>
    /\ outfs = <<>>
    /\ args \in [output_dir : {"sync", "out"}, dry_run : dry]
    /\ pc = "created"
    /\ NewReconciler
    /\ clock = 0
    /\ run = 1
    /\ history = <<>>
    /\ hash_seed \in HashSeeds(fs)
    /\ savers = <<>>

\* Every raw entry but the last, whose id no dict takes (see SpecLoad).
Init == InitWith(MaxEntries, 1..(Len(RawEntries) - 1), {FALSE})

env == <<sync_exists, args, run, hash_seed, savers>>

\* Step 1 of reconcile()
Discover ==
    /\ pc = "created"
    /\ json_files' = DiscoverJsonFiles(sync_exists, fs)
    /\ pc' = "loading"
    /\ UNCHANGED <<env, fs, outfs, loaded, sessions_by_id, machine_stats,
                   conflicts, errors, reconciled, report, clock, history>>

\* Step 2 of reconcile(), for one file
Load ==
    /\ pc = "loading"
    /\ json_files # <<>>
    /\ LET json_file == Head(json_files)
           file == fs[json_file]
           n == IF file.kind = "dict" THEN Len(ContainerEntries(file.items)) ELSE 0
           span == IF n > 1 THEN n - 1 ELSE 0
       IN  \E step \in (IF span = 0 THEN {0} ELSE {0, 1}) :
             /\ clock + step * span <= MaxClock
             /\ loaded' = Append(loaded,
                    [json_file |-> json_file, now |-> clock, step |-> step])
             /\ LET st == LoadMachineData(
                        [sessions_by_id |-> sessions_by_id,
                         machine_stats |-> machine_stats, errors |-> errors],
                        json_file, file, clock, step, hash_seed)
                IN  /\ sessions_by_id' = st.sessions_by_id
                    /\ machine_stats' = st.machine_stats
                    /\ errors' = st.errors
             /\ clock' = clock + step * span
    /\ json_files' = Tail(json_files)
    /\ UNCHANGED <<env, fs, outfs, pc, conflicts, reconciled, report, history>>

\* Step 3 of reconcile()
Reconcile ==
    /\ pc = "loading"
    /\ json_files = <<>>
    /\ LET r == ReconcileSessions(sessions_by_id, conflicts)
       IN  /\ reconciled' = r.reconciled
           /\ conflicts' = r.conflicts
           /\ sessions_by_id' = r.sessions_by_id
    /\ pc' = "reconciled"
    /\ UNCHANGED <<env, fs, outfs, json_files, loaded, machine_stats, errors,
                   report, clock, history>>

\* What a finished run leaves for the later ones to compare with.
Outcome(code, rep) == [fs |-> fs, exit |-> code, report |-> rep]

\* Step 4 of reconcile()
Report ==
    /\ pc = "reconciled"
    /\ ~GenerateReportRaises(reconciled)
    /\ report' = GenerateReport(reconciled, machine_stats, conflicts, errors, clock)
    /\ pc' = "reported"
    /\ UNCHANGED <<env, fs, outfs, json_files, loaded, sessions_by_id, machine_stats,
                   conflicts, errors, reconciled, clock, history>>

\* Step 4 raises: main() logs the error and exits with 1
ReportRaises ==
    /\ pc = "reconciled"
    /\ GenerateReportRaises(reconciled)
    /\ pc' = "failed"
    /\ history' = Append(history, Outcome(1, <<>>))
    /\ UNCHANGED <<env, fs, outfs, json_files, loaded, sessions_by_id, machine_stats,
                   conflicts, errors, reconciled, report, clock>>

\* Step 5 of reconcile(), then the rest of main(): exit code 0
Save ==
    /\ pc = "reported"
    /\ \/ /\ args.output_dir = "sync"
          /\ sync_exists
          /\ fs' = SaveReconciledData(fs, reconciled, report, clock)
          /\ outfs' = outfs
       \/ /\ args.output_dir = "out"
          /\ outfs' = SaveReconciledData(outfs, reconciled, report, clock)
          /\ fs' = fs
    /\ pc' = "done"
    /\ history' = Append(history, Outcome(0, report))
    /\ UNCHANGED <<env, json_files, loaded, sessions_by_id, machine_stats, conflicts,
                   errors, reconciled, report, clock>>

\* Step 5 raises FileNotFoundError at its first open(): the output
\* directory, the sync directory by default, does not exist
SaveRaises ==
    /\ pc = "reported"
    /\ args.output_dir = "sync"
    /\ ~sync_exists
    /\ pc' = "failed"
    /\ history' = Append(history, Outcome(1, <<>>))
    /\ UNCHANGED <<env, fs, outfs, json_files, loaded, sessions_by_id, machine_stats,
                   conflicts, errors, reconciled, report, clock>>

\* The tool is started again, with the same command line: a new process
\* and a new reconciler; runs is the number of runs the model follows
NextRunUpTo(runs) ==
    /\ pc \in {"done", "failed"}
    /\ run < runs
    /\ run' = run + 1
    /\ pc' = "created"
    /\ json_files' = <<>>
    /\ loaded' = <<>>
    /\ sessions_by_id' = <<>>
    /\ machine_stats' = <<>>
    /\ conflicts' = <<>>
    /\ errors' = <<>>
    /\ reconciled' = <<>>
    /\ report' = <<>>
    /\ hash_seed' \in HashSeeds(fs)
    /\ UNCHANGED <<sync_exists, fs, outfs, args, clock, history, savers>>

NextRun == NextRunUpTo(MaxRuns)

\* Time passes.  Only the steps that read the clock can tell when: the
\* loads, the report (its reconciliation_timestamp, which nothing reads
\* back) and the save.
Tick ==
    /\ pc \in {"loading", "reported"}
    /\ clock < MaxClock
    /\ clock' = clock + 1
    /\ UNCHANGED <<env, fs, outfs, pc, json_files, loaded, sessions_by_id, machine_stats,
                   conflicts, errors, reconciled, report, history>>

Next ==
    \/ Discover
    \/ Load
    \/ Reconcile
    \/ Report
    \/ ReportRaises
    \/ Save
    \/ SaveRaises
    \/ NextRun
    \/ Tick

Spec == Init /\ [][Next]_vars

(***************************************************************************)
(* Properties of a run of reconcile().                                     *)
(***************************************************************************)
\* The file a load of this run read.  Nothing writes into the sync
\* directory between the loads of a run and its save.
LoadedFile(l) == fs[l.json_file]

\* The raw session entries of a loaded file.
LoadedEntries(l) ==
    IF LoadedFile(l).kind = "dict" THEN ContainerEntries(LoadedFile(l).items)
    ELSE <<>>

\* The normalized sessions of the loads log, in load order.
RECURSIVE NormalizedOf(_)
NormalizedOf(log) ==
    IF log = <<>> THEN <<>>
    ELSE (IF LoadedFile(Head(log)).kind = "dict"
          THEN ExtractSessions(LoadedFile(Head(log)).items, Head(log).now, Head(log).step)
          ELSE <<>>)
         \o NormalizedOf(Tail(log))

\* C1: after reconcile() the resolved mapping holds each session_id once:
\* for the session_id of every record stored by the loads, exactly one
\* resolved session has that session_id.
C1_SessionIdUnique ==
    pc \in {"reconciled", "reported", "done"} =>
        \A i \in 1..Len(sessions_by_id) :
            \A j \in 1..Len(sessions_by_id[i].dups) :
                Cardinality({k \in 1..Len(reconciled) :
                    reconciled[k].session["session_id"]
                        = sessions_by_id[i].dups[j]["session_id"]}) = 1

\* The loads of this run that read a file json.load cannot parse.
CorruptLoads == {i \in 1..Len(loaded) : LoadedFile(loaded[i]).kind = "corrupt"}

\* The reconciler state the loads of log build when the corrupt files are
\* left out.
RECURSIVE LoadWithoutCorrupt(_, _)
LoadWithoutCorrupt(log, st) ==
    IF log = <<>> THEN st
    ELSE LoadWithoutCorrupt(Tail(log),
             IF LoadedFile(Head(log)).kind = "corrupt" THEN st
             ELSE LoadMachineData(st, Head(log).json_file, LoadedFile(Head(log)),
                                  Head(log).now, Head(log).step, hash_seed))

\* C4: when discovered files fail to parse as JSON, reconcile() still
\* returns its report; each such file has exactly one error, of type
\* corrupt_file; errors.total and errors.by_type.corrupt_file count them;
\* and the sessions, the conflicts and the machine statistics are those of
\* the same run without the corrupt files.
C4_CorruptFileIsSkipped ==
    (pc = "reported" /\ CorruptLoads # {}) =>
        LET st == LoadWithoutCorrupt(loaded,
                      [sessions_by_id |-> <<>>, machine_stats |-> <<>>,
                       errors |-> <<>>])
            expected == ReconcileSessions(st.sessions_by_id, <<>>)
        IN  /\ \A i \in CorruptLoads :
                   Cardinality({k \in 1..Len(errors) :
                       errors[k].file = PathStr(loaded[i].json_file)}) = 1
                   /\ \A k \in 1..Len(errors) :
                          errors[k].file = PathStr(loaded[i].json_file)
                              => errors[k].type = "corrupt_file"
            /\ report.errors.total = Len(st.errors) + Cardinality(CorruptLoads)
            /\ report.errors.by_type["corrupt_file"] = Cardinality(CorruptLoads)
            /\ reconciled = expected.reconciled
            /\ conflicts = expected.conflicts
            /\ machine_stats = st.machine_stats
            /\ report.summary.total_sessions = Len(expected.reconciled)
            /\ report.machine_stats = st.machine_stats

\* C4's case: a corrupt export was loaded after an export whose session is
\* in the report, and the report counts the one error.
C4_Witness ==
    /\ pc = "reported"
    /\ Len(loaded) = 2
    /\ LoadedFile(loaded[1]).kind = "dict"
    /\ LoadedFile(loaded[2]).kind = "corrupt"
    /\ report.summary.total_sessions = 2
    /\ report.errors.total = 1
    /\ report.errors.by_type = [corrupt_file |-> 1]

\* session has one of the id alias fields.
HasIdAlias(session) == \E i \in 1..Len(IdFields) : IdFields[i] \in DOMAIN session

\* session without the provenance the load attaches.
WithoutProvenance(session) ==
    [k \in DOMAIN session \ {"_machine_id", "_source_file", "_file_modified"} |->
        session[k]]

\* The entries of the loaded files that have an id alias field.
IdBearingCount ==
    SumSeq([i \in 1..Len(loaded) |->
        Cardinality({j \in 1..Len(LoadedEntries(loaded[i])) :
            HasIdAlias(LoadedEntries(loaded[i])[j])})])

\* C5: an entry with none of the id alias fields is dropped: every resolved
\* session is the normalization of an entry of its source file that has an
\* id alias field, summary.total_sessions counts the resolved sessions and
\* so at most the entries with an id alias field, and every error record is
\* about a file whose top level could not be read as a mapping.
C5_EntryWithoutIdIsDropped ==
    pc = "reported" =>
        /\ \A k \in 1..Len(reconciled) :
               \E i \in 1..Len(loaded) :
                   /\ reconciled[k].session["_source_file"] = PathStr(loaded[i].json_file)
                   /\ \E j \in 1..Len(LoadedEntries(loaded[i])) :
                          /\ HasIdAlias(LoadedEntries(loaded[i])[j])
                          /\ \E t \in Times :
                                 <<WithoutProvenance(reconciled[k].session)>>
                                     = NormalizeSession(LoadedEntries(loaded[i])[j], t)
        /\ report.summary.total_sessions = Len(reconciled)
        /\ Len(reconciled) <= IdBearingCount
        /\ \A k \in 1..Len(errors) :
               \E i \in 1..Len(loaded) :
                   /\ errors[k].file = PathStr(loaded[i].json_file)
                   /\ LoadedFile(loaded[i]).kind # "dict"

\* C5's case: one export holds an entry without id field beside an entry
\* with one; the report counts one session and no error.
C5_Witness ==
    /\ pc = "reported"
    /\ \E i \in 1..Len(loaded) :
           /\ \E j \in 1..Len(LoadedEntries(loaded[i])) :
                  ~HasIdAlias(LoadedEntries(loaded[i])[j])
           /\ \E j \in 1..Len(LoadedEntries(loaded[i])) :
                  HasIdAlias(LoadedEntries(loaded[i])[j])
    /\ report.summary.total_sessions = 1
    /\ report.errors.total = 0

\* C6: the resolved sessions are at most the normalized sessions of the
\* loaded files, fewer when a session_id occurs more than once among them
\* and as many when none repeats.
C6_Conservation ==
    pc = "reconciled" =>
        LET all == NormalizedOf(loaded)
            repeats == \E i, j \in 1..Len(all) :
                           i < j /\ all[i]["session_id"] = all[j]["session_id"]
        IN  /\ Len(reconciled) <= Len(all)
            /\ repeats => Len(reconciled) < Len(all)
            /\ ~repeats => Len(reconciled) = Len(all)

\* The runs of the history that ended with exit code 0.
Succeeded(i) == history[i].exit = 0

\* C7: two runs that end with a report over the same sync directory, file
\* for file, report the same total_sessions, total_cost and total_tokens.
C7_Idempotence ==
    \A i, j \in 1..Len(history) :
        (Succeeded(i) /\ Succeeded(j) /\ history[i].fs = history[j].fs) =>
            /\ history[i].report.summary.total_sessions
                   = history[j].report.summary.total_sessions
            /\ history[i].report.summary.total_cost
                   = history[j].report.summary.total_cost
            /\ history[i].report.summary.total_tokens
                   = history[j].report.summary.total_tokens

\* C7's case: two runs over the same exports, at different times, each of
\* which resolved a conflict between duplicates stamped at load time.
C7_Witness ==
    /\ Len(history) = 2
    /\ Succeeded(1) /\ Succeeded(2)
    /\ history[1].fs = history[2].fs
    /\ history[1].report.reconciliation_timestamp
           # history[2].report.reconciliation_timestamp
    /\ history[1].report.conflicts.total = 1
    /\ history[2].report.conflicts.total = 1
    /\ history[1].report.summary.date_range.earliest = IsoNow(0)
    /\ history[2].report.summary.date_range.latest = IsoNow(1)
    /\ history[1].report.summary.total_cost > 0

\* C10: a sync directory that does not exist is no error: the run does not
\* fail, and the report it ends with has zero sessions.
C10_MissingSyncDirIsNoError ==
    ~sync_exists =>
        /\ pc # "failed"
        /\ pc \in {"reported", "done"} => report.summary.total_sessions = 0

(***************************************************************************)
(* main() with its --dry-run flag, over a small sync directory.            *)
(***************************************************************************)
InitMain == InitWith(MaxEntries, {1, 9}, BOOLEAN)

SpecMain == InitMain /\ [][Next]_vars

(***************************************************************************)
(* The pipeline over exports that hold an entry whose id is unhashable.    *)
(***************************************************************************)
InitLoad == InitWith(MaxEntries, {1, 9, Len(RawEntries)}, {FALSE})

SpecLoad == InitLoad /\ [][Next]_vars

(***************************************************************************)
(* _extract_machine_id on its own: successive processes resolve the        *)
(* machine id of one file.  Here history records what each process         *)
(* resolved.                                                               *)
(***************************************************************************)
\* The string-hash seeds a process may start with.
Seeds == {0, 1}

\* The top levels of a machine export, as far as the machine id reads them.
IdData ==
    {m \o h :
        m \in {<<>>, <<StrItem("machine_id", "m-id")>>, <<StrItem("machine_id", "")>>},
        h \in {<<>>, <<StrItem("hostname", "host")>>}}

InitMachineId ==
    /\ sync_exists = TRUE
    /\ \E json_file \in {MachineFiles[1]} \cup OtherFiles :
           /\ json_files = <<json_file>>
           /\ \E data \in IdData :
                  fs = (json_file :> [kind |-> "dict", items |-> data, mtime |-> 1])
    /\ outfs = <<>>
    /\ args = [output_dir |-> "out", dry_run |-> FALSE]
    /\ pc = "created"
    /\ loaded = <<>>
    /\ sessions_by_id = <<>>
    /\ machine_stats = <<>>
    /\ conflicts = <<>>
    /\ errors = <<>>
    /\ reconciled = <<>>
    /\ report = <<>>
    /\ clock = 0
    /\ run = 1
    /\ history = <<>>
    /\ hash_seed \in Seeds
    /\ savers = <<>>

\* machine_id = self._extract_machine_id(json_file, data)
ExtractId ==
    /\ pc = "created"
    /\ history' = Append(history,
           [json_file |-> json_files[1],
            data |-> fs[json_files[1]].items,
            hash_seed |-> hash_seed,
            machine_id |-> ExtractMachineId(json_files[1], fs[json_files[1]].items,
                                            hash_seed)])
    /\ pc' = "done"
    /\ UNCHANGED <<env, fs, outfs, json_files, loaded, sessions_by_id, machine_stats,
                   conflicts, errors, reconciled, report, clock>>

\* The tool is started again: a new process, with a seed of its own.
Restart ==
    /\ pc = "done"
    /\ run < MaxRuns
    /\ run' = run + 1
    /\ hash_seed' \in Seeds
    /\ pc' = "created"
    /\ UNCHANGED <<sync_exists, args, savers, fs, outfs, json_files, loaded,
                   sessions_by_id, machine_stats, conflicts, errors, reconciled,
                   report, clock, history>>

NextMachineId ==
    \/ ExtractId
    \/ Restart

SpecMachineId == InitMachineId /\ [][NextMachineId]_vars

(***************************************************************************)
(* The resolver on its own: _reconcile_sessions applied to one group of    *)
(* duplicates as two loaded exports can leave it in sessions_by_id.        *)
(***************************************************************************)
\* What the two exports may say of the session: the tokens, the title.
DupTokens == {100, 150}
DupTitles == {"", "Fix", "_draft"}

DupEntry(tokens, title) ==
    [session_id |-> "sess-1", input_tokens |-> tokens, output_tokens |-> 50,
     total_cost |-> 1500, model |-> "opus", timestamp |-> IsoAware]
    @@ (IF title = "" THEN <<>> ELSE [title |-> title])

\* The groups of 2..n duplicates: entry i comes from export src[i], the
\* exports are loaded in the order of MachineFiles, and export j was
\* modified at mtimes[j].
DupGroups(n) ==
    UNION {
        {[i \in 1..k |->
             [_machine_id |-> ExtractMachineId(MachineFiles[src[i]], <<>>, 0),
              _source_file |-> PathStr(MachineFiles[src[i]]),
              _file_modified |-> mtimes[src[i]]]
             @@ NormalizeSession(DupEntry(tok[i], ttl[i]), 0)[1]] :
         src \in {f \in [1..k -> 1..2] : \A i \in 1..(k - 1) : f[i] <= f[i + 1]},
         tok \in [1..k -> DupTokens],
         ttl \in [1..k -> DupTitles],
         mtimes \in [1..2 -> {1, 2}]} :
        k \in 2..n}

\* The reconciler after its loads left one group of groups in
\* sessions_by_id.
InitResolveWith(groups) ==
    /\ sync_exists = TRUE
    /\ fs = <<>>
    /\ outfs = <<>>
    /\ args = [output_dir |-> "out", dry_run |-> FALSE]
    /\ pc = "loading"
    /\ json_files = <<>>
    /\ loaded = <<>>
    /\ sessions_by_id \in
           {<<[id |-> GroupKey(g[1]), dups |-> g]>> : g \in groups}
    /\ machine_stats = <<>>
    /\ conflicts = <<>>
    /\ errors = <<>>
    /\ reconciled = <<>>
    /\ report = <<>>
    /\ clock = 0
    /\ run = 1
    /\ history = <<>>
    /\ hash_seed = 0
    /\ savers = <<>>

InitResolve == InitResolveWith(DupGroups(MaxDups))

SpecResolve == InitResolve /\ [][Reconcile]_vars

(***************************************************************************)
(* The resolver on two duplicates whose values, those of the provenance    *)
(* included, may start with an underscore or be zero: the machine exports  *)
(* may name their machine "_mac", the sync directory may be the relative   *)
(* path _sync, and a file's modification time may be the epoch.            *)
(***************************************************************************)
\* What an export may say of the session: an entry as DupEntry gives it,
\* or an entry with nothing but an id and a model.
ProvenanceEntries ==
    {[kind |-> "plain", entry |-> DupEntry(t, "")] : t \in DupTokens}
    \cup {[kind |-> "bare", entry |-> [session_id |-> "_s9", model |-> m]] :
              m \in {"_opus", "_sonnet"}}

\* str(json_file) for a sync directory given as dir
PathStrIn(dir, json_file) == dir \o json_file

ProvenanceGroups ==
    {[i \in 1..2 |->
         [_machine_id |->
              ExtractMachineId(MachineFiles[src[i]], machine[src[i]], 0),
          _source_file |-> PathStrIn(dir, MachineFiles[src[i]]),
          _file_modified |-> mtimes[src[i]]]
         @@ NormalizeSession(e[i].entry, 0)[1]] :
     src \in {f \in [1..2 -> 1..2] : f[1] <= f[2]},
     e \in {f \in [1..2 -> ProvenanceEntries] : f[1].kind = f[2].kind},
     machine \in [1..2 -> {<<>>, <<StrItem("machine_id", "_mac")>>}],
     dir \in {"/sync/", "_sync/"},
     mtimes \in [1..2 -> {0, 1}]}

InitProvenance == InitResolveWith(ProvenanceGroups)

SpecProvenance == InitProvenance /\ [][Reconcile]_vars

(***************************************************************************)
(* _save_reconciled_data of two runs of the tool that write into the same  *)
(* output directory, one file at a time.  Here outfs maps a file name to   *)
(* the run that wrote the file last.                                       *)
(***************************************************************************)
Writers == {1, 2}

InitSave ==
    /\ sync_exists = TRUE
    /\ fs = <<>>
    /\ outfs = <<>>
    /\ args = [output_dir |-> "out", dry_run |-> FALSE]
    /\ pc = "reported"
    /\ json_files = <<>>
    /\ loaded = <<>>
    /\ sessions_by_id = <<>>
    /\ machine_stats = <<>>
    /\ conflicts = <<>>
    /\ errors = <<>>
    /\ reconciled = <<>>
    /\ report = <<>>
    /\ clock = 0
    /\ run = 1
    /\ history = <<>>
    /\ hash_seed = 0
    /\ savers = [w \in Writers |-> [at |-> "reported", timestamp |-> ""]]

reconciler == <<sync_exists, fs, args, pc, json_files, loaded, sessions_by_id,
                machine_stats, conflicts, errors, reconciled, report, run,
                history, hash_seed>>

\* timestamp = datetime.now().strftime('%Y%m%d_%H%M%S')
TakeTimestamp(w) ==
    /\ savers[w].at = "reported"
    /\ savers' = [savers EXCEPT ![w] = [at |-> "timestamp", timestamp |-> Strftime(clock)]]
    /\ UNCHANGED <<reconciler, outfs, clock>>

\* with open(file, 'w') as f: ... for the file called name
WriteFile(w, from, to, name) ==
    /\ savers[w].at = from
    /\ outfs' = (name :> w) @@ outfs
    /\ savers' = [savers EXCEPT ![w].at = to]
    /\ UNCHANGED <<reconciler, clock>>

WriteSessions(w) ==
    WriteFile(w, "timestamp", "sessions", SessionsFile(savers[w].timestamp))

WriteReport(w) ==
    WriteFile(w, "sessions", "report", ReportFile(savers[w].timestamp))

WriteSummary(w) ==
    WriteFile(w, "report", "done", SummaryFile(savers[w].timestamp))

TickSave ==
    /\ clock < MaxClock
    /\ clock' = clock + 1
    /\ UNCHANGED <<reconciler, outfs, savers>>

NextSave ==
    \/ \E w \in Writers : TakeTimestamp(w)
    \/ \E w \in Writers : WriteSessions(w)
    \/ \E w \in Writers : WriteReport(w)
    \/ \E w \in Writers : WriteSummary(w)
    \/ TickSave

SpecSave == InitSave /\ [][NextSave]_vars

(***************************************************************************)
(* Properties of main(), of the resolver and of the save.                  *)
(***************************************************************************)
\* C8: a dry run writes none of the three artifacts: nothing into a
\* separate output directory, and nothing but the machine exports is in
\* the sync directory.
C8_DryRunWritesNothing ==
    args.dry_run =>
        /\ outfs = <<>>
        /\ DOMAIN fs \subseteq Range(MachineFiles)

\* The duplicates agree on every key field.
KeyFieldsAgree(dups) ==
    \A i, j \in 1..Len(dups) : \A field \in KeyFields :
        GetOrNone(dups[i], field) = GetOrNone(dups[j], field)

\* C2: a step of the resolver on a group of two or more duplicates that
\* agree on all key fields records identical_content with the number of
\* duplicates, and returns one of the duplicates, as it is, whose source
\* file was modified latest.
C2_IdenticalContent ==
    [][(pc = "loading" /\ pc' = "reconciled") =>
          \A g \in 1..Len(sessions_by_id) :
              LET dups == sessions_by_id[g].dups
              IN  (Len(dups) >= 2 /\ KeyFieldsAgree(dups)) =>
                      /\ Len(conflicts') = 1
                      /\ conflicts'[g].session_id = sessions_by_id[g].id
                      /\ conflicts'[g].resolution = "identical_content"
                      /\ conflicts'[g].duplicates = Len(dups)
                      /\ reconciled'[g].id = sessions_by_id[g].id
                      /\ reconciled'[g].session \in Range(dups)
                      /\ \A i \in 1..Len(dups) :
                             reconciled'[g].session["_file_modified"]
                                 >= dups[i]["_file_modified"]
      ]_vars

\* C2's case: three duplicates that agree on the key fields and differ in
\* their titles, the later-modified export loaded first; the resolved
\* session comes from it.
C2_Witness ==
    /\ pc = "reconciled"
    /\ Len(conflicts) = 1
    /\ conflicts[1].resolution = "identical_content"
    /\ conflicts[1].duplicates = 3
    /\ conflicts[1].machines = {"mac-1", "mac-2"}
    /\ reconciled[1].session["_machine_id"] = "mac-1"
    /\ reconciled[1].session["_file_modified"] = 2
    /\ \E i \in 1..3 : sessions_by_id[1].dups[i]["_file_modified"] = 1
    /\ \E i \in 1..3 :
           sessions_by_id[1].dups[i]["title"] # reconciled[1].session["title"]

\* The number of non-empty fields of a duplicate.
NonEmptyCount(dup) == Cardinality({k \in DOMAIN dup : Truthy(k, dup[k])})

\* C3: a step of the resolver on a group of duplicates that disagree on a
\* key field records most_complete_record and returns a duplicate with the
\* most non-empty fields and, among those, with the most input_tokens +
\* output_tokens.
C3_MostComplete ==
    [][(pc = "loading" /\ pc' = "reconciled") =>
          \A g \in 1..Len(sessions_by_id) :
              LET dups == sessions_by_id[g].dups
                  resolved == reconciled'[g].session
              IN  (Len(dups) >= 2 /\ ~KeyFieldsAgree(dups)) =>
                      /\ conflicts'[g].resolution = "most_complete_record"
                      /\ resolved \in Range(dups)
                      /\ \A i \in 1..Len(dups) :
                             \/ NonEmptyCount(resolved) > NonEmptyCount(dups[i])
                             \/ /\ NonEmptyCount(resolved) = NonEmptyCount(dups[i])
                                /\ TotalTokens(resolved) >= TotalTokens(dups[i])
      ]_vars

\* The artifacts writer w has written so far.
Written(w) ==
    (IF savers[w].at \in {"sessions", "report", "done"}
     THEN {SessionsFile(savers[w].timestamp)} ELSE {})
    \cup (IF savers[w].at \in {"report", "done"}
          THEN {ReportFile(savers[w].timestamp)} ELSE {})
    \cup (IF savers[w].at = "done"
          THEN {SummaryFile(savers[w].timestamp)} ELSE {})

\* The three file names of a writer that has taken its timestamp.
FileNames(w) ==
    {SessionsFile(savers[w].timestamp), ReportFile(savers[w].timestamp),
     SummaryFile(savers[w].timestamp)}

HasTimestamp(w) == savers[w].at # "reported"

\* C9: of two runs that write into one output directory neither overwrites
\* an artifact of the other, and their file names are distinct.
C9_NeverOverwrites ==
    \A w1, w2 \in Writers :
        (w1 # w2 /\ HasTimestamp(w1) /\ HasTimestamp(w2)) =>
            /\ FileNames(w1) \cap FileNames(w2) = {}
            /\ \A name \in Written(w1) : outfs[name] = w1

\* C9, amended: two runs that took different timestamps, to the second,
\* have distinct file names and neither overwrites an artifact of the
\* other; every artifact a run wrote is in the directory.
C9_DistinctSecondsNeverOverwrite ==
    \A w1, w2 \in Writers :
        /\ Written(w1) \subseteq DOMAIN outfs
        /\ (w1 # w2 /\ HasTimestamp(w1) /\ HasTimestamp(w2)
            /\ savers[w1].timestamp # savers[w2].timestamp) =>
               /\ FileNames(w1) \cap FileNames(w2) = {}
               /\ \A name \in Written(w1) : outfs[name] = w1

\* C9's case: both runs have written their three artifacts, a second
\* apart, and the six files are in the directory.
C9_Witness ==
    /\ \A w \in Writers : savers[w].at = "done"
    /\ savers[1].timestamp # savers[2].timestamp
    /\ Cardinality(DOMAIN outfs) = 6
    /\ \A w \in Writers : \A name \in FileNames(w) : outfs[name] = w

(***************************************************************************)
(* Properties of error handling, of machine ids and of the report.         *)
(***************************************************************************)
\* C11: malformed input is never fatal: whatever files the sync directory
\* holds, no run of the tool over it fails.
C11_MalformedInputIsNeverFatal ==
    sync_exists =>
        /\ pc # "failed"
        /\ \A i \in 1..Len(history) : history[i].exit = 0

\* The paths of the files this run's errors are about.
ErrorFiles == {errors[k].file : k \in 1..Len(errors)}

\* C12: a file that causes an error record is skipped as a whole: no
\* stored session comes from it and no machine statistics entry is about
\* it.
C12_FailedFileIsSkippedWhole ==
    /\ \A i \in 1..Len(sessions_by_id) :
           \A j \in 1..Len(sessions_by_id[i].dups) :
               sessions_by_id[i].dups[j]["_source_file"] \notin ErrorFiles
    /\ \A m \in DOMAIN machine_stats : machine_stats[m].file \notin ErrorFiles

\* The loads of this run that read valid JSON whose top level is no mapping.
NonMappingLoads ==
    {i \in 1..Len(loaded) : LoadedFile(loaded[i]).kind \in {"list", "scalar"}}

\* C13: a file that parses and whose top level is no mapping has exactly
\* one error record, of type unknown_error, and contributes no session and
\* no machine statistics.
C13_NonMappingIsUnknownError ==
    \A i \in NonMappingLoads :
        LET path == PathStr(loaded[i].json_file)
        IN  /\ Cardinality({k \in 1..Len(errors) : errors[k].file = path}) = 1
            /\ \A k \in 1..Len(errors) :
                   errors[k].file = path => errors[k].type = "unknown_error"
            /\ \A g \in 1..Len(sessions_by_id) :
                   \A j \in 1..Len(sessions_by_id[g].dups) :
                       sessions_by_id[g].dups[j]["_source_file"] # path
            /\ \A m \in DOMAIN machine_stats : machine_stats[m].file # path

\* C13's case: a run loaded an export with sessions and an export whose
\* top level is a list, and reports the sessions of the one and the error
\* of the other.
C13_Witness ==
    /\ pc = "reported"
    /\ \E i \in NonMappingLoads : LoadedFile(loaded[i]).kind = "list"
    /\ report.summary.total_sessions = 2
    /\ report.errors.total = 1
    /\ report.errors.by_type = [unknown_error |-> 1]
    /\ Cardinality(DOMAIN report.machine_stats) = 1

\* C14: the machine id of a file is the first that applies of: the data's
\* machine_id, the data's hostname, the tokens of the file name's stem from
\* the third on when it has three, the name of the parent directory when
\* that is not the sync directory, an id derived from the path.
C14_MachineIdOrder ==
    \A i \in 1..Len(history) :
        LET h == history[i]
            parts == StemParts(h.json_file)
            by_data == Has(h.data, "machine_id") \/ Has(h.data, "hostname")
        IN  /\ Has(h.data, "machine_id")
                   => h.machine_id = Item(h.data, "machine_id").s
            /\ (~Has(h.data, "machine_id") /\ Has(h.data, "hostname"))
                   => h.machine_id = Item(h.data, "hostname").s
            /\ (~by_data /\ Len(parts) >= 3)
                   => h.machine_id = Join(SubSeq(parts, 3, Len(parts)))
            /\ (~by_data /\ Len(parts) < 3 /\ ~ParentIsSyncDir(h.json_file))
                   => h.machine_id = ParentName(h.json_file)
            /\ (~by_data /\ Len(parts) < 3 /\ ParentIsSyncDir(h.json_file))
                   => h.machine_id
                          = "unknown_" \o ToString(PathHash(h.json_file, h.hash_seed))

\* C14's case: an export with both a machine_id and a hostname, under a
\* name of four tokens, resolved to its machine_id.
C14_Witness ==
    /\ Len(history) = 1
    /\ history[1].json_file = "claude_usage_my_mac.json"
    /\ Has(history[1].data, "machine_id")
    /\ Has(history[1].data, "hostname")
    /\ history[1].machine_id = "m-id"

\* C15: the machine id derived from the path is deterministic: two
\* processes that fall back to it for the same file get the same id.
C15_PathIdIsDeterministic ==
    \A i, j \in 1..Len(history) :
        (history[i].json_file = history[j].json_file
         /\ history[i].data = history[j].data)
            => history[i].machine_id = history[j].machine_id

\* The sum of a numeric field over the values of the resolved mapping.
ResolvedSum(field) ==
    SumSeq([i \in 1..Len(reconciled) |-> reconciled[i].session[field]])

\* C16: summary.total_cost is the sum of total_cost over the resolved
\* sessions rounded to 4 decimal places, that is the multiple of 1e-4 within
\* 0.5e-4 of the sum, and summary.total_tokens is the sum of their
\* input_tokens and output_tokens.
C16_TotalsAreSums ==
    pc \in {"reported", "done"} =>
        /\ report.summary.total_cost % 100 = 0
        /\ report.summary.total_cost - ResolvedSum("total_cost") <= 50
        /\ ResolvedSum("total_cost") - report.summary.total_cost <= 50
        /\ report.summary.total_tokens
               = ResolvedSum("input_tokens") + ResolvedSum("output_tokens")

\* C16's case: two resolved sessions whose costs sum to 0.00028, reported
\* as 0.0003, and whose tokens sum to 15.
C16_Witness ==
    /\ pc = "reported"
    /\ Len(reconciled) = 2
    /\ ResolvedSum("total_cost") = 280
    /\ report.summary.total_cost = 300
    /\ report.summary.total_tokens = 15

\* No sum of costs the report rounds is halfway between two multiples of
\* 1e-4.
NoTie == pc = "reconciled" => ResolvedSum("total_cost") % 100 # 50

\* The groups of sessions_by_id with more than one duplicate, and the
\* position among them of group g.
ConflictGroups == {g \in 1..Len(sessions_by_id) : Len(sessions_by_id[g].dups) > 1}
ConflictIndex(g) == Cardinality({h \in ConflictGroups : h <= g})

\* C17: a group of one session passes through unchanged and has no
\* conflict; every group of more has exactly one conflict, with the session
\* id, the number of duplicates, the set of their machine ids and the
\* resolution, and with selected_machine exactly when the resolution is
\* most_complete_record or most_recent; conflicts.total is the number of
\* groups of more than one session.
C17_OneConflictPerGroup ==
    pc \in {"reconciled", "reported", "done"} =>
        /\ Len(conflicts) = Cardinality(ConflictGroups)
        /\ Len(reconciled) = Len(sessions_by_id)
        /\ \A g \in 1..Len(sessions_by_id) :
               LET group == sessions_by_id[g]
               IN  /\ reconciled[g].id = group.id
                   /\ Len(group.dups) = 1 => reconciled[g].session = group.dups[1]
                   /\ g \in ConflictGroups =>
                          LET conflict == conflicts[ConflictIndex(g)]
                          IN  /\ conflict.session_id = group.id
                              /\ conflict.duplicates = Len(group.dups)
                              /\ conflict.machines
                                     = {group.dups[j]["_machine_id"] :
                                            j \in 1..Len(group.dups)}
                              /\ conflict.resolution \in
                                     {"identical_content", "most_complete_record",
                                      "most_recent"}
                              /\ DOMAIN conflict
                                     = {"session_id", "duplicates", "machines",
                                        "resolution"}
                                       \cup (IF conflict.resolution = "identical_content"
                                             THEN {} ELSE {"selected_machine"})
                              /\ conflict.resolution # "identical_content" =>
                                     conflict.selected_machine
                                         = reconciled[g].session["_machine_id"]
        /\ pc \in {"reported", "done"} =>
               report.conflicts.total = Cardinality(ConflictGroups)

\* C17's case: the report of a run with one group of two duplicates from
\* two machines, resolved to the more complete one.
C17_Witness ==
    /\ pc = "reported"
    /\ Len(sessions_by_id) = 1
    /\ Len(sessions_by_id[1].dups) = 2
    /\ report.conflicts.total = 1
    /\ conflicts[1].resolution = "most_complete_record"
    /\ conflicts[1].machines = {"mac-1", "mac-2"}
    /\ conflicts[1].selected_machine = "mac-2"

\* The count of the most-complete step as it is described: the fields with
\* a non-empty value, the provenance fields left out.
NonProvenanceCount(dup) == NonEmptyCount(WithoutProvenance(dup))

\* C18: the field count of the most-complete step leaves the provenance
\* fields out: once the resolver has run on a group that disagrees on a
\* key field, two duplicates of the group with as many non-empty
\* non-provenance fields have the same field_count whatever their machine
\* id, source path and modification time are, and the duplicate returned
\* has the most non-empty non-provenance fields and, among those, the most
\* tokens.
C18_ProvenanceIsNotCounted ==
    pc = "reconciled" =>
        \A g \in 1..Len(sessions_by_id) :
            LET dups == sessions_by_id[g].dups
                resolved == reconciled[g].session
            IN  (Len(dups) >= 2 /\ ~KeyFieldsAgree(dups)) =>
                    /\ \A i, j \in 1..Len(dups) :
                           NonProvenanceCount(dups[i]) = NonProvenanceCount(dups[j])
                               => FieldCount(dups[i]) = FieldCount(dups[j])
                    /\ \A i \in 1..Len(dups) :
                           \/ NonProvenanceCount(resolved)
                                  > NonProvenanceCount(dups[i])
                           \/ /\ NonProvenanceCount(resolved)
                                     = NonProvenanceCount(dups[i])
                              /\ TotalTokens(resolved) >= TotalTokens(dups[i])

\* The duplicates of a group that no duplicate beats on the count of
\* non-empty non-provenance fields and then on tokens.
TopDuplicates(dups) ==
    {i \in 1..Len(dups) :
        \A j \in 1..Len(dups) :
            \/ NonProvenanceCount(dups[i]) > NonProvenanceCount(dups[j])
            \/ /\ NonProvenanceCount(dups[i]) = NonProvenanceCount(dups[j])
               /\ TotalTokens(dups[i]) >= TotalTokens(dups[j])}

\* C19: when several duplicates of a group that disagrees on a key field
\* tie on the non-empty field count and on input_tokens + output_tokens,
\* the resolver returns one of them whose source file was modified latest.
C19_MostRecentBreaksTies ==
    pc = "reconciled" =>
        \A g \in 1..Len(sessions_by_id) :
            LET dups == sessions_by_id[g].dups
                resolved == reconciled[g].session
                top == TopDuplicates(dups)
            IN  (~KeyFieldsAgree(dups) /\ Cardinality(top) >= 2) =>
                    /\ \E i \in top : resolved = dups[i]
                    /\ \A i \in top :
                           resolved["_file_modified"] >= dups[i]["_file_modified"]

\* C20: no conflict is ever recorded with resolution most_recent.
C20_MostRecentNeverOccurs ==
    \A c \in 1..Len(conflicts) : conflicts[c].resolution # "most_recent"

(***************************************************************************)
(* One machine export on its own: discovery and the load of the one file,  *)
(* over entries that spell their fields in every way the normalization     *)
(* tells apart.                                                            *)
(***************************************************************************)
\* The dicts that hold key k with one of vals, or do not hold it.
Opt(k, vals) == {<<>>} \cup {k :> v : v \in vals}

TimestampEntries ==
    {[session_id |-> "sess-1"] @@ a @@ b :
        a \in Opt("timestamp", {IsoAware, IsoNaive, SpaceFormat, Unparseable,
                                NotIsoWithT, "", NoneVal}),
        b \in Opt("created_at", {IsoAware, Unparseable})}

TokenEntries ==
    {[session_id |-> "sess-1"] @@ a @@ b @@ c :
        a \in Opt("input_tokens", {0, 5}), b \in Opt("prompt_tokens", {0, 6}),
        c \in Opt("inputs", {0, 7})}
    \cup {[session_id |-> "sess-1"] @@ a @@ b @@ c :
        a \in Opt("output_tokens", {0, 5}), b \in Opt("completion_tokens", {0, 6}),
        c \in Opt("outputs", {0, 7})}
    \cup {[session_id |-> "sess-1"] @@ a @@ b @@ c :
        a \in Opt("total_cost", {0, 20}), b \in Opt("cost", {0, 40}),
        c \in Opt("price", {0, 60})}

ModelEntries ==
    {[session_id |-> "sess-1"] @@ a @@ b @@ c :
        a \in Opt("model", {"", NoneVal, "opus"}),
        b \in Opt("model_name", {"", "sonnet"}),
        c \in Opt("model_id", {"haiku"})}

IdEntries ==
    {a @@ b @@ c @@ [_note |-> "n", tags |-> "work"] :
        a \in Opt("session_id", {"", NoneVal, "sess-1"}),
        b \in Opt("id", {"sess-2"}),
        c \in Opt("uuid", {"u-1"})}

ProjectEntries ==
    {[session_id |-> "sess-1"] @@ a @@ b @@ c @@ d :
        a \in Opt("project", {NoneVal, "p"}), b \in Opt("project_name", {"q"}),
        c \in Opt("title", {NoneVal, "Fix"}),
        d \in Opt("conversation_title", {"Chat"})}

\* The top levels of the export: one entry under the key sessions.
ExportShapes ==
    {<<ListItem("sessions", <<e>>)>> :
        e \in TimestampEntries \cup TokenEntries \cup ModelEntries
              \cup IdEntries \cup ProjectEntries}

\* The reconciler over a sync directory that holds one export whose top
\* level is one of shapes.
InitExportOver(shapes) ==
    /\ sync_exists = TRUE
    /\ fs \in {MachineFiles[1] :> [kind |-> "dict", items |-> data, mtime |-> 1] :
                  data \in shapes}
    /\ outfs = <<>>
    /\ args = [output_dir |-> "out", dry_run |-> FALSE]
    /\ pc = "created"
    /\ NewReconciler
    /\ clock = 0
    /\ run = 1
    /\ history = <<>>
    /\ hash_seed = 0
    /\ savers = <<>>

NextExport ==
    \/ Discover
    \/ Load
    \/ Tick

InitExport == InitExportOver(ExportShapes)

SpecExport == InitExport /\ [][NextExport]_vars

\* The sessions the loads stored, group after group.
RECURSIVE StoredFrom(_, _)
StoredFrom(by_id, g) ==
    IF g > Len(by_id) THEN <<>> ELSE by_id[g].dups \o StoredFrom(by_id, g + 1)

Stored == StoredFrom(sessions_by_id, 1)

\* The raw entry a stored session was normalized from, when its file holds
\* one entry.
RawOf(session) ==
    LET l == loaded[CHOOSE i \in 1..Len(loaded) :
                 PathStr(loaded[i].json_file) = session["_source_file"]]
    IN  [entry |-> LoadedEntries(l)[1], now |-> l.now]

\* C21: every normalized session carries a timestamp: each stored session
\* has a timestamp that is neither null nor empty, and a session whose entry
\* has no timestamp alias field, or one that no format parses, is stamped
\* with the time of its normalization.
C21_EverySessionHasTimestamp ==
    \A i \in 1..Len(Stored) :
        LET session == Stored[i]
            raw == RawOf(session)
            tsf == FirstPresent(raw.entry, TimestampFields)
        IN  /\ "timestamp" \in DOMAIN session
            /\ session["timestamp"] \notin {NoneVal, ""}
            /\ (tsf = <<>> \/ raw.entry[tsf[1]] \in {Unparseable, "", NoneVal})
                   => session["timestamp"] = IsoNow(raw.now)

\* The value of the first alias, in priority order, that entry holds with a
\* truthy value; default when there is none.
FirstTruthyAlias(entry, aliases, default) ==
    LET truthy == {i \in 1..Len(aliases) :
                      /\ aliases[i] \in DOMAIN entry
                      /\ Truthy(aliases[i], entry[aliases[i]])}
    IN  IF truthy = {} THEN default
        ELSE entry[aliases[CHOOSE i \in truthy : \A j \in truthy : i <= j]]

\* C22: the token, cost and model fields of a stored session are the first
\* truthy value among the aliases of its entry, in priority order: a zero,
\* empty or null value of an alias falls through to the next alias, and the
\* field is 0 ('unknown' for the model) only when no alias is truthy.
C22_FirstTruthyAliasWins ==
    \A i \in 1..Len(Stored) :
        LET session == Stored[i]
            entry == RawOf(session).entry
        IN  /\ session["input_tokens"] =
                   FirstTruthyAlias(entry, <<"input_tokens", "prompt_tokens", "inputs">>, 0)
            /\ session["output_tokens"] =
                   FirstTruthyAlias(entry,
                       <<"output_tokens", "completion_tokens", "outputs">>, 0)
            /\ session["total_cost"] =
                   FirstTruthyAlias(entry, <<"total_cost", "cost", "price">>, 0)
            /\ session["model"] =
                   FirstTruthyAlias(entry, <<"model", "model_name", "model_id">>,
                                    "unknown")

\* C22's case: an entry whose input_tokens and prompt_tokens are zero is
\* stored with the tokens of its third alias.
C22_Witness ==
    \E i \in 1..Len(Stored) :
        LET entry == RawOf(Stored[i]).entry
        IN  /\ {"input_tokens", "prompt_tokens", "inputs"} \subseteq DOMAIN entry
            /\ entry["input_tokens"] = 0
            /\ entry["prompt_tokens"] = 0
            /\ entry["inputs"] = 7
            /\ Stored[i]["input_tokens"] = 7

(***************************************************************************)
(* One machine export on its own, over the ways its top level may lay the  *)
(* sessions out.                                                           *)
(***************************************************************************)
\* An entry that tells where it was found.
Found(where) == [session_id |-> where]

\* No item, or one of items.
OptItem(items) == {<<>>} \cup {<<it>> : it \in items}

Reverse(s) == [i \in 1..Len(s) |-> s[Len(s) + 1 - i]]

ExportLayouts ==
    LET layouts ==
            {id \o r \o a \o d \o c \o u \o s :
                id \in OptItem({StrItem("session_id", "root")}),
                r \in OptItem({ListItem("records", <<Found("r1"), Found("r2")>>),
                               ListItem("records", <<>>), ScalarsItem("records")}),
                a \in OptItem({ListItem("archive", <<Found("a")>>)}),
                d \in OptItem({ListItem("data", <<Found("d")>>),
                               DictItem("data", Found("d")), StrItem("data", "x")}),
                c \in OptItem({ListItem("conversations", <<Found("c")>>)}),
                u \in OptItem({ListItem("usage_data", <<Found("u")>>)}),
                s \in OptItem({ListItem("sessions", <<Found("s")>>),
                               ListItem("sessions", <<>>),
                               DictItem("sessions", Found("s"))})}
    IN  layouts \cup {Reverse(l) : l \in layouts}

InitLayout == InitExportOver(ExportLayouts)

SpecLayout == InitLayout /\ [][NextExport]_vars

KnownKeys == <<"sessions", "usage_data", "conversations", "data">>

\* The entries of the container the discovery is to choose: the value of
\* the first known key present (data only when it is a list), else the
\* first value, in insertion order, that is a non-empty list of mappings,
\* else nothing.  A value that is one mapping stands for the list of it.
ChosenEntries(data) ==
    LET matching == {i \in 1..Len(KnownKeys) :
                        /\ Has(data, KnownKeys[i])
                        /\ KnownKeys[i] = "data" => IsList(Item(data, "data"))}
        lists == {i \in 1..Len(data) :
                     data[i].t = "list" /\ data[i].entries # <<>>}
    IN  IF matching # {}
        THEN Item(data, KnownKeys[CHOOSE i \in matching :
                                      \A j \in matching : i <= j]).entries
        ELSE IF lists # {}
        THEN data[CHOOSE i \in lists : \A j \in lists : i <= j].entries
        ELSE <<>>

C24_RootMappingIsSoleEntry ==
    (pc = "loading" /\ Len(loaded) = 1) =>
        LET data == LoadedFile(loaded[1]).items
        IN  (/\ \A i \in 1..Len(data) :
                    /\ data[i].key \notin Range(KnownKeys)
                    /\ ~(data[i].t = "list" /\ data[i].entries # <<>>)
             /\ \E i \in 1..Len(IdFields) : Has(data, IdFields[i]))
                => /\ Len(Stored) = 1
                   /\ Stored[1]["session_id"] = Item(data, "session_id").s

(***************************************************************************)
(* The report over many conflicts: two exports hold the same session ids,  *)
(* the first of them with the same content and the others with different   *)
(* tokens, and other files of the sync directory failed to load.           *)
(***************************************************************************)
\* The two records of session g: from a group on, mac-2 counted more tokens.
SharedGroup(g, same) ==
    [id |-> "sess-" \o ToString(g),
     dups |->
         [j \in 1..2 |->
             [_machine_id |-> ExtractMachineId(MachineFiles[j], <<>>, 0),
              _source_file |-> PathStr(MachineFiles[j]),
              _file_modified |-> j]
             @@ NormalizeSession(
                    [DupEntry(IF g <= same \/ j = 1 THEN 100 ELSE 150, "")
                        EXCEPT !["session_id"] = "sess-" \o ToString(g)], 0)[1]]]

\* machine_stats after the loads of the two exports.
SharedStats(by_id) ==
    [m \in {ExtractMachineId(MachineFiles[j], <<>>, 0) : j \in 1..2} |->
        LET j == CHOOSE j \in 1..2 : ExtractMachineId(MachineFiles[j], <<>>, 0) = m
            sessions == [g \in 1..Len(by_id) |-> by_id[g].dups[j]]
        IN  [file |-> PathStr(MachineFiles[j]),
             session_count |-> Len(sessions),
             last_modified |-> j,
             total_cost |-> SumField(sessions, "total_cost"),
             total_tokens |-> SumField(sessions, "input_tokens")
                              + SumField(sessions, "output_tokens")]]

\* The errors the loads of the other files left.
LoadErrors ==
    {<<>>,
     <<ErrorRecord("usage.json", "corrupt_file")>>,
     <<ErrorRecord("mac_usage.json", "unknown_error"),
       ErrorRecord("usage.json", "corrupt_file")>>,
     <<ErrorRecord("mac_usage.json", "unknown_error"),
       ErrorRecord("usage.json", "unknown_error")>>}

InitReport ==
    /\ sync_exists = TRUE
    /\ fs = <<>>
    /\ outfs = <<>>
    /\ args = [output_dir |-> "out", dry_run |-> FALSE]
    /\ pc = "loading"
    /\ json_files = <<>>
    /\ loaded = <<>>
    /\ \E n \in 0..MaxConflicts : \E same \in 0..n :
           sessions_by_id = [g \in 1..n |-> SharedGroup(g, same)]
    /\ machine_stats = SharedStats(sessions_by_id)
    /\ conflicts = <<>>
    /\ errors \in LoadErrors
    /\ reconciled = <<>>
    /\ report = <<>>
    /\ clock = 0
    /\ run = 1
    /\ history = <<>>
    /\ hash_seed = 0
    /\ savers = <<>>

NextReport ==
    \/ Reconcile
    \/ Report

SpecReport == InitReport /\ [][NextReport]_vars

\* The sum of the counts of a breakdown.
RECURSIVE SumCounts(_)
SumCounts(counts) ==
    IF DOMAIN counts = {} THEN 0
    ELSE LET k == CHOOSE k \in DOMAIN counts : TRUE
         IN  counts[k] + SumCounts([j \in DOMAIN counts \ {k} |-> counts[j]])

\* C25: in the report conflicts.total is the number of conflicts, the
\* counts of conflicts.by_resolution sum to it and conflicts.details holds
\* the first min(10, total) conflicts in the order they were appended;
\* errors.details holds every error and the counts of errors.by_type sum to
\* errors.total, the number of errors.
C25_ReportSections ==
    pc = "reported" =>
        /\ report.conflicts.total = Len(conflicts)
        /\ SumCounts(report.conflicts.by_resolution) = report.conflicts.total
        /\ Len(report.conflicts.details)
               = (IF Len(conflicts) <= 10 THEN Len(conflicts) ELSE 10)
        /\ \A i \in 1..Len(report.conflicts.details) :
               report.conflicts.details[i] = conflicts[i]
        /\ report.errors.total = Len(errors)
        /\ report.errors.details = errors
        /\ SumCounts(report.errors.by_type) = report.errors.total

\* C25's case: eleven conflicts of two resolutions and two errors of two
\* types; the report details ten conflicts.
C25_Witness ==
    /\ pc = "reported"
    /\ report.conflicts.total = 11
    /\ Len(report.conflicts.details) = 10
    /\ DOMAIN report.conflicts.by_resolution
           = {"identical_content", "most_complete_record"}
    /\ report.errors.total = 2
    /\ DOMAIN report.errors.by_type = {"corrupt_file", "unknown_error"}

\* C26: the resolver selects, it never merges: a step of the resolver
\* leaves, for every session id in the order of the groups, one of the
\* duplicates loaded for that id, with every field (provenance included)
\* as it was loaded.
C26_SelectsNeverMerges ==
    [][(pc = "loading" /\ pc' = "reconciled") =>
          /\ Len(reconciled') = Len(sessions_by_id)
          /\ \A g \in 1..Len(sessions_by_id) :
                 /\ reconciled'[g].id = sessions_by_id[g].id
                 /\ \E i \in 1..Len(sessions_by_id[g].dups) :
                        reconciled'[g].session = sessions_by_id[g].dups[i]
      ]_vars

\* C26's case: the resolver returned a duplicate without title although
\* another duplicate of the group has one.
C26_Witness ==
    /\ pc = "reconciled"
    /\ \E g \in 1..Len(sessions_by_id) :
           /\ Len(sessions_by_id[g].dups) = 3
           /\ reconciled[g].session \in Range(sessions_by_id[g].dups)
           /\ reconciled[g].session["title"] = NoneVal
           /\ \E i \in 1..3 : sessions_by_id[g].dups[i]["title"] = "Fix"

\* C27: every entry of the resolved mapping is stored under the session_id
\* field of its record, which is not empty; so no two resolved records have
\* the same session_id field.
C27_KeyIsSessionIdField ==
    pc \in {"reconciled", "reported", "done"} =>
        /\ \A k \in 1..Len(reconciled) :
               /\ reconciled[k].session["session_id"] # ""
               /\ reconciled[k].id = reconciled[k].session["session_id"]
        /\ \A k, l \in 1..Len(reconciled) :
               k # l => reconciled[k].session["session_id"]
                            # reconciled[l].session["session_id"]

(***************************************************************************)
(* Successive runs that write their artifacts into the sync directory,     *)
(* one run more than the pipeline model follows.                           *)
(***************************************************************************)
InitRuns ==
    /\ InitWith(MaxEntries, 1..4, {FALSE})
    /\ sync_exists
    /\ args.output_dir = "sync"

NextRunAgain == NextRunUpTo(MaxRuns + 1)

NextRuns ==
    \/ Discover
    \/ Load
    \/ Reconcile
    \/ Report
    \/ Save
    \/ NextRunAgain
    \/ Tick

SpecRuns == InitRuns /\ [][NextRuns]_vars

\* The times at which a run wrote the sessions file the sync directory
\* holds.
ArtifactTimes == {t \in Times : SessionsFile(Strftime(t)) \in DOMAIN fs}

LoadedNames == {loaded[i].json_file : i \in 1..Len(loaded)}

\* The sessions of the most recently written sessions file.
LatestSessions ==
    LET t == CHOOSE t \in ArtifactTimes : \A u \in ArtifactTimes : u <= t
    IN  [name |-> SessionsFile(Strftime(t)),
         entries |-> Item(fs[SessionsFile(Strftime(t))].items, "sessions").entries]

\* C28: when the runs write into the sync directory, a later run loads the
\* sessions and report files the earlier runs wrote; every run reports the
\* total_sessions, total_tokens and total_cost of the first run; and the
\* sessions a later run resolves are those of the most recently written
\* sessions file, with its values.
C28_RerunsOverOwnArtifacts ==
    /\ \A i \in 1..Len(history) :
           /\ history[i].report.summary.total_sessions
                  = history[1].report.summary.total_sessions
           /\ history[i].report.summary.total_tokens
                  = history[1].report.summary.total_tokens
           /\ history[i].report.summary.total_cost
                  = history[1].report.summary.total_cost
    /\ (run >= 2 /\ pc = "reconciled") =>
           /\ ArtifactTimes # {}
           /\ \A t \in ArtifactTimes :
                  {SessionsFile(Strftime(t)), ReportFile(Strftime(t))}
                      \subseteq LoadedNames
           /\ Len(reconciled) = Len(LatestSessions.entries)
           /\ \A k \in 1..Len(reconciled) :
                  /\ reconciled[k].session["_source_file"]
                         = PathStr(LatestSessions.name)
                  /\ WithoutProvenance(reconciled[k].session)
                         = WithoutProvenance(LatestSessions.entries[k])

\* C28's case: a third run ended over the artifacts of two earlier runs,
\* written at different times, and over exports that disagree on a session.
C28_Witness ==
    /\ Len(history) = 3
    /\ Cardinality(ArtifactTimes) = 2
    /\ history[1].report.conflicts.total = 1
    /\ "most_complete_record" \in DOMAIN history[1].report.conflicts.by_resolution
    /\ history[3].report.conflicts.total = 1
    /\ history[3].report.summary.total_sessions = 1
    /\ history[3].report.summary.total_tokens = 200

(***************************************************************************)
(* The resolver on duplicates that come one from each of several exports,  *)
(* modified at pairwise distinct times in any order.                       *)
(***************************************************************************)
\* The exports, in the order in which they are discovered and loaded.
ExportFiles ==
    <<MachineFiles[1], MachineFiles[2], "claude_usage_my_mac.json",
      "laptop/claude_usage_mac-3.json">>

\* The bijections of 1..k
Orders(k) ==
    {p \in [1..k -> 1..k] : \A i, j \in 1..k : p[i] = p[j] => i = j}

DistinctGroups(n) ==
    UNION {
        {[i \in 1..k |->
             [_machine_id |-> ExtractMachineId(ExportFiles[i], <<>>, 0),
              _source_file |-> PathStr(ExportFiles[i]),
              _file_modified |-> mtimes[i]]
             @@ NormalizeSession(DupEntry(tok[i], ttl[i]), 0)[1]] :
         tok \in [1..k -> DupTokens],
         ttl \in [1..k -> DupTitles],
         mtimes \in Orders(k)} :
        k \in 2..n}

InitPermute == InitResolveWith(DistinctGroups(MaxDups))

SpecPermute == InitPermute /\ [][Reconcile]_vars

\* C29: the resolver's winner and conflict record for a group whose
\* modification times are pairwise distinct are those it gives for every
\* other order of the group's duplicates.
C29_LoadOrderIsIrrelevant ==
    pc = "reconciled" =>
        \A g \in 1..Len(sessions_by_id) :
            LET dups == sessions_by_id[g].dups
                k == Len(dups)
            IN  (/\ k >= 2
                 /\ \A i, j \in 1..k :
                        i # j => dups[i]["_file_modified"] # dups[j]["_file_modified"])
                    => \A p \in Orders(k) :
                           LET r == ResolveConflict(sessions_by_id[g].id,
                                                    [i \in 1..k |-> dups[p[i]]])
                           IN  /\ r.resolved = reconciled[g].session
                               /\ r.conflict = conflicts[g]

\* C29's case: three duplicates, of which the one loaded second comes from
\* the latest file and the one loaded first from the oldest, were resolved
\* for the latest, which ties with another on fields and tokens.
C29_Witness ==
    /\ pc = "reconciled"
    /\ Len(sessions_by_id) = 1
    /\ LET dups == sessions_by_id[1].dups
       IN  /\ Len(dups) = 3
           /\ dups[1]["_source_file"] = PathStr(ExportFiles[2])
           /\ dups[3]["_source_file"] = PathStr(ExportFiles[1])
           /\ conflicts[1].resolution = "most_complete_record"
           /\ reconciled[1].session = dups[1]
           /\ FieldCount(dups[2]) = FieldCount(dups[1])
           /\ TotalTokens(dups[2]) = TotalTokens(dups[1])

\* C30: normalization is idempotent on its own output: normalizing a stored
\* session again, at any time, with its provenance fields or without them,
\* gives the session without its provenance fields (the same session_id,
\* timestamp, tokens, cost, model, project, title and additional fields).
C30_NormalizationIsIdempotent ==
    \A i \in 1..Len(Stored) :
        \A t \in Times :
            /\ NormalizeSession(Stored[i], t) = <<WithoutProvenance(Stored[i])>>
            /\ NormalizeSession(WithoutProvenance(Stored[i]), t)
                   = <<WithoutProvenance(Stored[i])>>

\* C30's case: a session stamped with the time of its normalization, its
\* timestamp being unparseable, is normalized again later.
C30_Witness ==
    \E i \in 1..Len(Stored) :
        LET raw == RawOf(Stored[i])
        IN  /\ "timestamp" \in DOMAIN raw.entry
            /\ raw.entry["timestamp"] = Unparseable
            /\ Stored[i]["timestamp"] = IsoNow(raw.now)
            /\ clock > raw.now
            /\ NormalizeSession(Stored[i], clock) = <<WithoutProvenance(Stored[i])>>

====
